---- MODULE Spec2Model ----
(***************************************************************************)
(* Model of the tbook reader: the render buffer built by flatten_content,  *)
(* the cursor / viewport / selection arithmetic of App (src/src/app.rs)    *)
(* and the key dispatch of run_app (src/src/main.rs).                      *)
(*                                                                         *)
(* Text is a sequence of one-character strings, so that str::lines and     *)
(* str::split_whitespace are computed, not assumed.  Option<T> is a        *)
(* sequence of length 0 (None) or 1 (Some).                                *)
(***************************************************************************)
EXTENDS Integers, Sequences, FiniteSets, TLC

\* ------------------------------------------------------------------ bounds
\* Largest reader height (in lines) the terminal is resized to.
MaxHeight == 4
\* Cap of the words_read counter (scrolling that would pass it is disabled).
MaxWordsRead == 5
\* Cap of the number of persisted annotations.
MaxAnnotations == 1
\* Longest query typed into a search box.
MaxQueryLen == 1
\* Rows the annotations table holds from earlier sessions.
MaxStoredAnnotations == 2
\* Content items of one unit given to flatten_content.
MaxItems == 2
\* Lookups started and not yet received.
MaxLookups == 2
\* Image tags and stretches of markup between them in a sample unit.
MaxMarkup == 3

\* ------------------------------------------------------- program constants
target_width_chars == 80
MinImageLines == 5
MaxImageLines == 30

\* ---------------------------------------------------------------- helpers
None == <<>>
Some(x) == <<x>>
IsSome(o) == Len(o) = 1
Unwrap(o) == o[1]

Min(a, b) == IF a < b THEN a ELSE b
Max(a, b) == IF a > b THEN a ELSE b
\* usize::saturating_sub
saturating_sub(a, b) == IF a >= b THEN a - b ELSE 0
\* Ord::clamp
clamp(x, lo, hi) == IF x < lo THEN lo ELSE IF x > hi THEN hi ELSE x

RECURSIVE SplitOn(_, _)
\* The segments of s between occurrences of the delimiter c (empty ones kept).
SplitOn(s, c) ==
    IF \A i \in 1..Len(s) : s[i] # c
    THEN << s >>
    ELSE LET i == CHOOSE k \in 1..Len(s) :
                      s[k] = c /\ \A j \in 1..(k - 1) : s[j] # c
         IN  << SubSeq(s, 1, i - 1) >> \o SplitOn(SubSeq(s, i + 1, Len(s)), c)

\* str::lines: split at newlines; a final empty segment is not a line.
lines(s) ==
    LET segs == SplitOn(s, "\n")
    IN  IF segs[Len(segs)] = <<>> THEN SubSeq(segs, 1, Len(segs) - 1) ELSE segs

\* str::split_whitespace: the maximal runs of non-blank characters.
split_whitespace(s) == SelectSeq(SplitOn(s, " "), LAMBDA w : w # <<>>)

RECURSIVE join(_, _)
\* [&str]::join
join(ws, sep) ==
    IF ws = <<>> THEN <<>>
    ELSE IF Len(ws) = 1 THEN ws[1]
    ELSE ws[1] \o sep \o join(Tail(ws), sep)

\* ------------------------------------------------------------ render lines
TextLine(s) == [kind |-> "Text", text |-> s, protocol_idx |-> 0, row_idx |-> 0]
\* Variant: every image row carries index 0.
ImageRow_shared_index(p, r) ==
    [kind |-> "Image", text |-> <<>>, protocol_idx |-> 0, row_idx |-> r]
ImageRow(p, r) == [kind |-> "Image", text |-> <<>>, protocol_idx |-> p, row_idx |-> r]

\* ------------------------------------------------------------ page content
PText(s) == [kind |-> "Text", text |-> s, w |-> 0, h |-> 0]
PImage(w, h) == [kind |-> "Image", text |-> <<>>, w |-> w, h |-> h]

\* Display height of a w x h image:
\* ((target_width_chars as f32 * (h / w)) * 0.5) as usize, clamped.
height_lines(w, h) ==
    clamp((target_width_chars * h) \div (2 * w), MinImageLines, MaxImageLines)

RECURSIVE flatten_items(_, _, _)
flatten_items(content, ls, nprot) ==
    IF content = <<>> THEN [lines |-> ls, protocols |-> nprot]
    ELSE LET item == Head(content)
         IN  IF item.kind = "Text"
             THEN flatten_items(Tail(content),
                     ls \o [i \in 1..Len(lines(item.text)) |->
                               TextLine(lines(item.text)[i])],
                     nprot)
             ELSE flatten_items(Tail(content),
                     ls \o [i \in 1..height_lines(item.w, item.h) |->
                               ImageRow(nprot, i - 1)],
                     nprot + 1)

EmptyPlaceholder == <<" ", "[", " ", "E", "m", "p", "t", "y", " ", "]", " ">>

\* Variant: an empty result is returned as it is.
flatten_content_no_placeholder(content) == flatten_items(content, <<>>, 0)

\* App::flatten_content: the render buffer and the number of image protocols.
flatten_content(content) ==
    LET r == flatten_items(content, <<>>, 0)
    IN  IF r.lines = <<>>
        THEN [lines |-> << TextLine(EmptyPlaceholder) >>, protocols |-> r.protocols]
        ELSE r

\* ------------------------------------------------------------------ library
\* The documents on disk.  Every document is EPUB-like: chapters is the spine,
\* each entry the content items get_chapter_content returns for it; toc is the
\* number of entries of the document's own table of contents.
Ch0Text == <<"a", " ", "b", " ", "c", "\n", "\n", "d">>
\* The two books of the library.
LibraryDocuments ==
    << [id |-> 1,
        chapters |-> << << PText(Ch0Text) >>,
                        << PText(<<"e", " ", "f">>), PImage(8, 1), PText(<<"g">>) >>,
                        << PText(<<"h">>) >> >>,
        toc |-> 4],
       [id |-> 2,
        chapters |-> << << PText(<<"x", " ", "y", "\n", "z", "\n", "w">>) >> >>,
        toc |-> 0] >>

\* Content items flatten_content is given: text blocks without a line, with a
\* final newline and with an empty line inside, and images that are wide,
\* between two heights, tall and flat.
SampleItems ==
    << PText(<<>>), PText(<<"a">>), PText(<<"a", "\n">>),
       PText(<<"a", "\n", "\n", "b">>),
       PImage(200, 100), PImage(400, 106), PImage(1, 1), PImage(8, 1) >>

RECURSIVE ContentsOfLen(_)
\* Every list of n sample items, as a sequence of lists.
ContentsOfLen(n) ==
    IF n = 0 THEN << <<>> >>
    ELSE LET shorter == ContentsOfLen(n - 1)
         IN  [i \in 1..(Len(shorter) * Len(SampleItems)) |->
                 Append(shorter[((i - 1) \div Len(SampleItems)) + 1],
                        SampleItems[((i - 1) % Len(SampleItems)) + 1])]

RECURSIVE ContentsUpTo(_)
\* Every list of at most n sample items.
ContentsUpTo(n) ==
    IF n = 0 THEN ContentsOfLen(0)
    ELSE ContentsUpTo(n - 1) \o ContentsOfLen(n)

\* One single-unit document per list of sample items.
SampleDocuments ==
    LET contents == ContentsUpTo(MaxItems)
    IN  [i \in 1..Len(contents) |->
            [id |-> Len(LibraryDocuments) + i,
             chapters |-> << contents[i] >>,
             toc |-> 0]]

\* A document no unit of which can be read: the parser fails on it, or its
\* spine is empty, so that get_chapter_content(0) is out of bounds.
DamagedDocument ==
    [id |-> Len(LibraryDocuments) + Len(SampleDocuments) + 1,
     chapters |-> <<>>,
     toc |-> 0]

Documents == LibraryDocuments \o SampleDocuments \o << DamagedDocument >>

BookIds == {Documents[i].id : i \in 1..Len(Documents)}
DocumentOf(id) == Documents[CHOOSE i \in 1..Len(Documents) : Documents[i].id = id]

\* BookParser::get_chapter_count
get_chapter_count(id) == Len(DocumentOf(id).chapters)

\* EpubParser::get_chapter_content; chapter indices are 0-based.
get_chapter_content(id, index) ==
    IF index >= get_chapter_count(id)
    THEN [ok |-> FALSE, items |-> <<>>]
    ELSE [ok |-> TRUE, items |-> DocumentOf(id).chapters[index + 1]]

\* EpubParser::get_toc: the number of entries listed.
get_toc(id) ==
    IF DocumentOf(id).toc = 0 THEN get_chapter_count(id) ELSE DocumentOf(id).toc

\* ------------------------------------------------------------ EPUB parser
\* str::trim().is_empty()
is_blank(s) == \A i \in 1..Len(s) : s[i] \in {" ", "\n"}

\* The resources of the sample EPUB (EpubDoc::resources): manifest id, archive
\* path and the image the bytes decode to (None: not an image).  One manifest
\* id reads like a rewritten URL.
Resources ==
    << [id |-> <<"i1">>, path |-> <<"a">>, image |-> Some(<<200, 100>>)],
       [id |-> <<"i2">>, path |-> <<"img", "/", "b">>, image |-> Some(<<8, 1>>)],
       [id |-> <<"i3">>, path |-> <<"u">>, image |-> None],
       [id |-> <<"epub://", "a">>, path |-> <<"c">>, image |-> Some(<<1, 1>>)] >>

\* EpubDoc::get_resource_by_path: the resource stored at the path, or None.
get_resource_by_path(path) ==
    LET hits == SelectSeq(Resources, LAMBDA r : r.path = path)
    IN  IF hits = <<>> THEN None ELSE Some(hits[1])

\* EpubDoc::get_resource: the resource with the manifest id, or None.
get_resource(id) ==
    LET hits == SelectSeq(Resources, LAMBDA r : r.id = id)
    IN  IF hits = <<>> THEN None ELSE Some(hits[1])

\* src.strip_prefix("epub://"): the scheme is one element of a reference.
strip_prefix(src) ==
    IF src # <<>> /\ Head(src) = "epub://" THEN Some(Tail(src)) ELSE None

\* Path::file_name: what follows the last '/'.
file_name(src) ==
    LET rest == IF IsSome(strip_prefix(src)) THEN Unwrap(strip_prefix(src)) ELSE src
        parts == SplitOn(rest, "/")
    IN  parts[Len(parts)]

\* str::ends_with
ends_with(p, suffix) ==
    Len(suffix) <= Len(p) /\ SubSeq(p, Len(p) - Len(suffix) + 1, Len(p)) = suffix

\* The first URL of a srcset value: up to the first ',' and, trimmed, up to
\* the first blank.
first_of_srcset(src) ==
    LET words == split_whitespace(SplitOn(src, ",")[1])
    IN  IF words = <<>> THEN <<>> ELSE words[1]

\* The reference as it is resolved: a srcset is cut to its first URL.
effective_src(raw) ==
    IF (\E i \in 1..Len(raw) : raw[i] \in {",", " "}) /\ first_of_srcset(raw) # <<>>
    THEN first_of_srcset(raw)
    ELSE raw

\* The resource a reference resolves to, or None: for an "epub://" reference
\* the archive path up to '#' or '?'; failing that the manifest id; failing
\* that a resource whose path ends with the reference's file name.  (The
\* resource table is a hash map: of several paths with that ending any may be
\* found; the sample has at most one.)
resolve_image(src) ==
    LET resolved_bytes ==
            IF IsSome(strip_prefix(src))
            THEN get_resource_by_path(
                    SplitOn(SplitOn(Unwrap(strip_prefix(src)), "#")[1], "?")[1])
            ELSE None
        img_data == IF resolved_bytes = None THEN get_resource(src) ELSE None
        named == SelectSeq(Resources, LAMBDA r : ends_with(r.path, file_name(src)))
        by_name == IF resolved_bytes = None /\ img_data = None /\ file_name(src) # <<>>
                      /\ named # <<>>
                   THEN get_resource_by_path(named[1].path)
                   ELSE None
    IN  IF IsSome(resolved_bytes) THEN resolved_bytes
        ELSE IF IsSome(by_name) THEN by_name
        ELSE img_data

NotFoundPlaceholder(src) ==
    <<"[", " ", "Image", " ", "resource", " ", "not", " ", "found:", " ">> \o src
    \o <<" ", "]">>
DecodeErrorPlaceholder(src) ==
    <<"[", " ", "Error", " ", "decoding", " ", "image:", " ">> \o src \o <<" ", "]">>
NoContentPlaceholder ==
    <<" ", "[", " ", "No", " ", "content", " ", "in", " ", "this", " ", "chapter", " ",
      "]", " ">>
NoTextPlaceholder ==
    <<" ", "[", " ", "Chapter", " ", "contains", " ", "no", " ", "renderable", " ",
      "text", " ", "]", " ">>

\* Variant: a reference that resolves to nothing is passed over.
image_items_skip_missing(raw) ==
    LET src == effective_src(raw)
        res == resolve_image(src)
    IN  IF src = <<>> \/ res = None THEN <<>>
        ELSE IF IsSome(Unwrap(res).image)
        THEN << PImage(Unwrap(Unwrap(res).image)[1], Unwrap(Unwrap(res).image)[2]) >>
        ELSE << PText(DecodeErrorPlaceholder(src)) >>

\* The items pushed for one image tag with the captured reference raw.
image_items(raw) ==
    LET src == effective_src(raw)
        res == resolve_image(src)
    IN  IF src = <<>> THEN <<>>
        ELSE IF res = None THEN << PText(NotFoundPlaceholder(src)) >>
        ELSE IF IsSome(Unwrap(res).image)
        THEN << PImage(Unwrap(Unwrap(res).image)[1], Unwrap(Unwrap(res).image)[2]) >>
        ELSE << PText(DecodeErrorPlaceholder(src)) >>

\* The markup of a unit is the sequence of what the image regex cuts it into:
\* image tags with their captured reference and the stretches of markup
\* between them, each with what html2text::from_read makes of it.
HtmlPart(ok, plain) == [kind |-> "html", ok |-> ok, plain |-> plain, src |-> <<>>]
ImgTag(src) == [kind |-> "img", ok |-> TRUE, plain |-> <<>>, src |-> src]

RECURSIVE markup_items(_)
\* The loop over the image tags, and the text after the last one.
markup_items(markup) ==
    IF markup = <<>> THEN <<>>
    ELSE LET part == Head(markup)
         IN  (IF part.kind = "html"
              THEN IF part.ok /\ ~is_blank(part.plain)
                   THEN << PText(part.plain) >> ELSE <<>>
              ELSE image_items(part.src))
             \o markup_items(Tail(markup))

\* EpubParser::get_chapter_content for an in-range unit whose bytes are read
\* ("error": get_current_with_epub_uris fails) and cut into markup.
EpubParser_get_chapter_content(unit) ==
    IF unit.bytes = "error" THEN [ok |-> FALSE, items |-> <<>>]
    ELSE IF unit.markup = <<>>
    THEN [ok |-> TRUE, items |-> << PText(NoContentPlaceholder) >>]
    ELSE LET result_items == markup_items(unit.markup)
         IN  [ok |-> TRUE,
              items |-> IF result_items = <<>> THEN << PText(NoTextPlaceholder) >>
                        ELSE result_items]

\* ------------------------------------------------------------- PDF parser
BlankPagePlaceholder ==
    <<" ", "[", " ", "Blank", " ", "Page", " ", "or", " ", "Text", " ", "Not", " ",
      "Extractable", " ", "]", " ">>

\* The uniquely named file pdftoppm is told to write.
PngPath == "tbook_pdf.png"

\* PdfParser::render_page_image on a page, with tmp the files of the temporary
\* directory: the image or None, and the files afterwards.  The page records
\* how the external commands end: whether pdftoppm starts, whether it leaves
\* the file, its exit status, whether the file can be read and what it decodes
\* to.
render_page_image(page, tmp) ==
    LET written == IF page.wrote_png THEN tmp \cup {PngPath} ELSE tmp
    IN  IF page.pdftoppm = "spawn_error" THEN [img |-> None, tmp |-> tmp]
        ELSE IF page.pdftoppm = "exit_failure" THEN [img |-> None, tmp |-> written]
        ELSE IF ~(page.wrote_png /\ page.readable) THEN [img |-> None, tmp |-> written]
        ELSE [img |-> page.image, tmp |-> written \ {PngPath}]

\* PdfParser::get_chapter_content: the result and the temporary files left.
PdfParser_get_chapter_content(page, tmp) ==
    IF page.pdftotext # "ok" THEN [ok |-> FALSE, items |-> <<>>, tmp |-> tmp]
    ELSE IF is_blank(page.text)
    THEN LET r == render_page_image(page, tmp)
         IN  [ok |-> TRUE,
              items |-> IF IsSome(r.img)
                        THEN << PImage(Unwrap(r.img)[1], Unwrap(r.img)[2]) >>
                        ELSE << PText(BlankPagePlaceholder) >>,
              tmp |-> r.tmp]
    ELSE [ok |-> TRUE, items |-> << PText(page.text) >>, tmp |-> tmp]

\* ------------------------------------------------- buffer access (0-based)
\* Vec::get: the line at 0-based index i, or None.
line_at(content, i) ==
    IF i >= 0 /\ i < Len(content) THEN Some(content[i + 1]) ELSE None

\* line.split_whitespace().count() of a text line
word_count(l) == Len(split_whitespace(l.text))

IsText(o) == IsSome(o) /\ Unwrap(o).kind = "Text"
IsImage(o) == IsSome(o) /\ Unwrap(o).kind = "Image"

\* ------------------------------------------------------- NavigationModel
\* Each operator maps a LoadedBook to the LoadedBook the method leaves.

\* Variant: the line entering the top of the window is counted.
scroll_viewport_down_counting_new_top(book) ==
    IF book.viewport_top + 1 < Len(book.chapter_content)
    THEN LET top == book.viewport_top + 1
             entered == line_at(book.chapter_content, top)
         IN  [book EXCEPT
                !.viewport_top = top,
                !.words_read = IF IsText(entered)
                               THEN @ + Len(split_whitespace(Unwrap(entered).text))
                               ELSE @,
                !.current_line = IF @ < top THEN top ELSE @]
    ELSE book

\* Variant: the window advances and the cursor stays where it was.
scroll_viewport_down_keep_cursor(book) ==
    IF book.viewport_top + 1 < Len(book.chapter_content)
    THEN LET top == book.viewport_top + 1
             left == line_at(book.chapter_content, top - 1)
         IN  [book EXCEPT
                !.viewport_top = top,
                !.words_read = IF IsText(left) THEN @ + word_count(Unwrap(left)) ELSE @]
    ELSE book

scroll_viewport_down(book) ==
    IF book.viewport_top + 1 < Len(book.chapter_content)
    THEN LET top == book.viewport_top + 1
             left == line_at(book.chapter_content, top - 1)
         IN  [book EXCEPT
                !.viewport_top = top,
                !.words_read = IF IsText(left) THEN @ + word_count(Unwrap(left)) ELSE @,
                !.current_line = IF @ < top THEN top ELSE @]
    ELSE book

scroll_viewport_up(book) ==
    IF book.viewport_top > 0
    THEN [book EXCEPT !.viewport_top = @ - 1]
    ELSE book

sync_word_index(book) ==
    LET cur == line_at(book.chapter_content, book.current_line)
    IN  IF IsText(cur)
        THEN LET words == word_count(Unwrap(cur))
             IN  IF book.word_index >= words /\ words > 0
                 THEN [book EXCEPT !.word_index = saturating_sub(words, 1)]
                 ELSE IF words = 0
                 THEN [book EXCEPT !.word_index = 0]
                 ELSE book
        ELSE IF IsImage(cur)
        THEN [book EXCEPT !.word_index = 0]
        ELSE book

\* The shared "advance one line, scroll when the margin is reached" step.
line_down(book, height) ==
    LET line == book.current_line + 1
    IN  [book EXCEPT
           !.current_line = line,
           !.viewport_top = IF line >= @ + saturating_sub(height, 2) THEN @ + 1 ELSE @]

\* The shared "retreat one line, pull the viewport up" step.
line_up(book) ==
    LET line == book.current_line - 1
    IN  [book EXCEPT
           !.current_line = line,
           !.viewport_top = IF line < @ THEN line ELSE @]

move_cursor_down(book, height) ==
    IF book.current_line + 1 < Len(book.chapter_content)
    THEN sync_word_index(line_down(book, height))
    ELSE book

\* Variant: the cursor never moves above the top of the window.
move_cursor_up_within_viewport(book) ==
    IF book.current_line > book.viewport_top
    THEN sync_word_index(line_up(book))
    ELSE book

move_cursor_up(book) ==
    IF book.current_line > 0
    THEN sync_word_index(line_up(book))
    ELSE book

\* Variant: an empty line after the last word of a line is skipped.
cursor_right_skip_empty(book, height) ==
    LET cur == line_at(book.chapter_content, book.current_line)
        next == line_at(book.chapter_content, book.current_line + 1)
    IN  IF IsText(cur)
        THEN IF book.word_index + 1 < word_count(Unwrap(cur))
             THEN [book EXCEPT !.word_index = @ + 1]
             ELSE IF book.current_line + 1 < Len(book.chapter_content)
             THEN IF IsText(next) /\ word_count(Unwrap(next)) = 0
                     /\ book.current_line + 2 < Len(book.chapter_content)
                  THEN [line_down(line_down(book, height), height)
                           EXCEPT !.word_index = 0]
                  ELSE [line_down(book, height) EXCEPT !.word_index = 0]
             ELSE book
        ELSE IF IsImage(cur)
        THEN IF book.current_line + 1 < Len(book.chapter_content)
             THEN [line_down(book, height) EXCEPT !.word_index = 0]
             ELSE book
        ELSE book

\* Variant: from an image row the cursor advances two rows when it can.
cursor_right_two_rows(book, height) ==
    LET cur == line_at(book.chapter_content, book.current_line)
    IN  IF IsText(cur)
        THEN IF book.word_index + 1 < word_count(Unwrap(cur))
             THEN [book EXCEPT !.word_index = @ + 1]
             ELSE IF book.current_line + 1 < Len(book.chapter_content)
             THEN [line_down(book, height) EXCEPT !.word_index = 0]
             ELSE book
        ELSE IF IsImage(cur)
        THEN IF book.current_line + 2 < Len(book.chapter_content)
             THEN [line_down(line_down(book, height), height)
                      EXCEPT !.word_index = 0]
             ELSE IF book.current_line + 1 < Len(book.chapter_content)
             THEN [line_down(book, height) EXCEPT !.word_index = 0]
             ELSE book
        ELSE book

cursor_right(book, height) ==
    LET cur == line_at(book.chapter_content, book.current_line)
    IN  IF IsText(cur)
        THEN IF book.word_index + 1 < word_count(Unwrap(cur))
             THEN [book EXCEPT !.word_index = @ + 1]
             ELSE IF book.current_line + 1 < Len(book.chapter_content)
             THEN [line_down(book, height) EXCEPT !.word_index = 0]
             ELSE book
        ELSE IF IsImage(cur)
        THEN IF book.current_line + 1 < Len(book.chapter_content)
             THEN [line_down(book, height) EXCEPT !.word_index = 0]
             ELSE book
        ELSE book

cursor_left(book) ==
    LET cur == line_at(book.chapter_content, book.current_line)
    IN  IF IsText(cur)
        THEN IF book.word_index > 0
             THEN [book EXCEPT !.word_index = @ - 1]
             ELSE IF book.current_line > 0
             THEN sync_word_index(line_up(book))
             ELSE book
        ELSE IF IsImage(cur)
        THEN IF book.current_line > 0
             THEN sync_word_index(line_up(book))
             ELSE book
        ELSE book

\* Variant: the two points are ordered by line only.
get_selection_range_by_line(book) ==
    IF IsSome(book.selection_anchor)
    THEN LET anchor_line == Unwrap(book.selection_anchor)[1]
             anchor_word == Unwrap(book.selection_anchor)[2]
         IN  IF anchor_line <= book.current_line
             THEN Some(<<anchor_line, anchor_word, book.current_line, book.word_index>>)
             ELSE Some(<<book.current_line, book.word_index, anchor_line, anchor_word>>)
    ELSE None

\* App::get_selection_range: None, or Some(<<sl, sw, el, ew>>).
get_selection_range(book) ==
    IF IsSome(book.selection_anchor)
    THEN LET anchor_line == Unwrap(book.selection_anchor)[1]
             anchor_word == Unwrap(book.selection_anchor)[2]
         IN  IF anchor_line < book.current_line
                \/ (anchor_line = book.current_line /\ anchor_word <= book.word_index)
             THEN Some(<<anchor_line, anchor_word, book.current_line, book.word_index>>)
             ELSE Some(<<book.current_line, book.word_index, anchor_line, anchor_word>>)
    ELSE None

\* The words the inner loop pushes for line li: indices w_start..=w_end that exist.
RECURSIVE push_words(_, _, _)
push_words(words, wi, w_end) ==
    IF wi > w_end THEN <<>>
    ELSE (IF wi < Len(words) THEN << words[wi + 1] >> ELSE <<>>)
         \o push_words(words, wi + 1, w_end)

RECURSIVE selected_words(_, _, _, _, _, _)
selected_words(content, li, sl, sw, el, ew) ==
    IF li > el THEN <<>>
    ELSE LET cur == line_at(content, li)
             here == IF IsText(cur)
                     THEN LET words == split_whitespace(Unwrap(cur).text)
                              w_start == IF li = sl THEN sw ELSE 0
                              w_end == IF li = el
                                       THEN Min(ew, saturating_sub(Len(words), 1))
                                       ELSE saturating_sub(Len(words), 1)
                          IN  push_words(words, w_start, w_end)
                     ELSE <<>>
         IN  here \o selected_words(content, li + 1, sl, sw, el, ew)

\* Variant: the first line is taken from its first word.
get_selected_text_whole_first_line(book) ==
    LET range == get_selection_range(book)
    IN  IF IsSome(range)
        THEN LET r == Unwrap(range)
             IN  join(selected_words(book.chapter_content, r[1], r[1], 0, r[3], r[4]),
                      <<" ">>)
        ELSE <<>>

\* App::get_selected_text
get_selected_text(book) ==
    LET range == get_selection_range(book)
    IN  IF IsSome(range)
        THEN LET r == Unwrap(range)
             IN  join(selected_words(book.chapter_content, r[1], r[1], r[2], r[3], r[4]),
                      <<" ">>)
        ELSE <<>>

\* ------------------------------------------------------------ persistence
\* A row of the annotations table.
AnnotationRecord(book_id, chapter, sl, sw, el, ew, content, kind) ==
    [book_id |-> book_id, chapter |-> chapter,
     start_line |-> sl, start_word |-> sw, end_line |-> el, end_word |-> ew,
     content |-> content, kind |-> kind]

\* ORDER BY chapter, start_line, start_word
anno_before(a, b) ==
    \/ a.chapter < b.chapter
    \/ a.chapter = b.chapter /\ a.start_line < b.start_line
    \/ a.chapter = b.chapter /\ a.start_line = b.start_line
       /\ a.start_word < b.start_word

RECURSIVE sort_annotations(_)
\* Stable insertion sort by the query's ORDER BY (ties keep insertion order).
sort_annotations(rows) ==
    IF rows = <<>> THEN <<>>
    ELSE LET rest == sort_annotations(SubSeq(rows, 1, Len(rows) - 1))
             x == rows[Len(rows)]
             k == Cardinality({i \in 1..Len(rest) : ~anno_before(x, rest[i])})
         IN  SubSeq(rest, 1, k) \o << x >> \o SubSeq(rest, k + 1, Len(rest))

\* Db::get_annotations
get_annotations(table, book_id) ==
    sort_annotations(SelectSeq(table, LAMBDA a : a.book_id = book_id))

\* .filter(|a| a.chapter == chapter)
annotations_of_chapter(table, book_id, chapter) ==
    SelectSeq(get_annotations(table, book_id), LAMBDA a : a.chapter = chapter)

\* Db::update_progress on the row of book id
update_progress(rows, id, chapter, line, lines_read) ==
    [i \in 1..Len(rows) |->
        IF rows[i].id = id
        THEN [rows[i] EXCEPT !.current_chapter = chapter,
                             !.current_line = line,
                             !.lines_read = lines_read]
        ELSE rows[i]]

\* ------------------------------------------------------------------- state
VARIABLES
    view,                      \* App::view
    current_book,              \* App::current_book : Option<LoadedBook>
    books,                     \* App::books, the cached rows of the books table
    selected_book_index,       \* App::selected_book_index (0-based)
    db_books,                  \* the books table
    db_annotations,            \* the annotations table, in insertion order
    toc_items,                 \* App::toc_items (their number)
    selected_toc_index,        \* App::selected_toc_index
    all_annotations,           \* App::all_annotations
    current_annotations,       \* App::current_annotations
    selected_annotation_index, \* App::selected_annotation_index
    annotation_filter,         \* App::annotation_filter
    search_query,              \* App::search_query
    global_search_query,       \* App::global_search_query
    global_search_results,     \* App::global_search_results: <<book_id, chapter>>
    dictionary_query,          \* App::dictionary_query
    dictionary_result,         \* App::dictionary_result
    vocabulary,                \* the vocabulary table: word and definition columns
    lookups,                   \* the spawned lookup tasks still waiting for the reply
    rx_dict,                   \* the results sent on the channel and not yet received
    unit_source,               \* the unit a parser is asked for, () when none is
    extracted,                 \* Option: what get_chapter_content returned for it
    tmp_files,                 \* the files in std::env::temp_dir()
    cover_cache,               \* App::cover_cache: <<book id, image>> pairs
    cover_missing,             \* App::cover_missing
    pending_cover_requests,    \* App::pending_cover_requests
    current_library_cover,     \* App::current_library_cover: Option image
    last_library_selection,    \* App::last_library_selection: Option book id
    pending_cover_request,     \* run_app: the debounced request, Option
    cover_req,                 \* the watch channel: latest value, unseen flag
    cover_worker,              \* the cover worker: where it stands, its request
    rx_cover,                  \* the responses sent on the channel, not yet received
    lastOp,                    \* the handler that ran last
    prevOp                     \* after move_cursor_up: the handler that ran before it

vars == <<view, current_book, books, selected_book_index, db_books, db_annotations,
          toc_items, selected_toc_index, all_annotations, current_annotations,
          selected_annotation_index, annotation_filter, search_query,
          global_search_query, global_search_results, dictionary_query,
          dictionary_result, vocabulary, lookups, rx_dict, unit_source, extracted,
          tmp_files, cover_cache, cover_missing, pending_cover_requests,
          current_library_cover, last_library_selection, pending_cover_request,
          cover_req, cover_worker, rx_cover, lastOp, prevOp>>

libraryVars == <<books, selected_book_index>>
dbVars == <<db_books, db_annotations>>
tocVars == <<toc_items, selected_toc_index>>
annoListVars == <<all_annotations, current_annotations, selected_annotation_index,
                  annotation_filter>>
searchVars == <<search_query, global_search_query, global_search_results>>
dictVars == <<dictionary_query, dictionary_result, vocabulary, lookups, rx_dict>>
parserVars == <<unit_source, extracted, tmp_files>>
coverVars == <<cover_cache, cover_missing, pending_cover_requests,
               current_library_cover, last_library_selection, pending_cover_request,
               cover_req, cover_worker, rx_cover>>

\* Reader heights the terminal can have when a key is handled.
Heights == 1..MaxHeight
\* Characters typed into the search boxes.
QueryChars == {"h"}

\* Every handler records itself as the last one run.
Record(op) ==
    /\ lastOp' = op
    /\ prevOp' = IF op = "move_cursor_up" THEN lastOp ELSE "new"

HasBook == IsSome(current_book)
Book == Unwrap(current_book)

\* No lookup has been made: App::new leaves both strings empty, the
\* vocabulary table is empty and the channel was just created.
DictInit ==
    /\ dictionary_query = <<>>
    /\ dictionary_result = <<>>
    /\ vocabulary = {}
    /\ lookups = <<>>
    /\ rx_dict = <<>>

\* No unit is being extracted and the temporary directory is empty.
NoUnit == [kind |-> "none"]
ParserInit ==
    /\ unit_source = NoUnit
    /\ extracted = None
    /\ tmp_files = {}

\* ------------------------------------------------------------------ covers
\* The capacity of the channel the cover worker answers on.
CoverChannelCapacity == 4

\* App::load_cover_image: the image decoded from the file, None for a
\* document that cannot be opened.  (A path is written as the book's id.)
load_cover_image(path) ==
    IF DocumentOf(path).chapters = <<>> THEN None
    ELSE Some([decoded_from |-> path])

\* HashMap::contains_key, HashMap::get, HashMap::insert on cover_cache
cache_has(cache, id) == \E e \in cache : e[1] = id
cache_get(cache, id) == (CHOOSE e \in cache : e[1] = id)[2]
cache_insert(cache, id, image) == {e \in cache : e[1] # id} \cup {<<id, image>>}

\* App::cover_request_for_selected, on the rows and the selection it is
\* called with: the selection it remembers, the cover it leaves on display
\* and the request it returns.
cover_request_for_selected(rows, idx, last, cover, cache, missing, pending) ==
    IF rows = <<>> THEN [last |-> last, cover |-> None, request |-> None]
    ELSE LET book_id == rows[idx + 1].id
             shown == IF last # Some(book_id) THEN None ELSE cover
         IN  IF cache_has(cache, book_id)
             THEN [last |-> Some(book_id), cover |-> Some(cache_get(cache, book_id)),
                   request |-> None]
             ELSE IF book_id \in missing \/ book_id \in pending
             THEN [last |-> Some(book_id), cover |-> shown, request |-> None]
             ELSE [last |-> Some(book_id), cover |-> shown,
                   request |-> Some([book_id |-> book_id, path |-> book_id])]

\* schedule_cover_request, called once rows and idx are the library list and
\* the selection: the pending request is replaced by the one for the selected
\* book.  (The delay only decides when the deadline passes.)
schedule_cover_request(rows, idx) ==
    LET r == cover_request_for_selected(rows, idx, last_library_selection,
                 current_library_cover, cover_cache, cover_missing,
                 pending_cover_requests)
    IN  /\ last_library_selection' = r.last
        /\ current_library_cover' = r.cover
        /\ pending_cover_request' = r.request
        /\ UNCHANGED <<cover_cache, cover_missing, pending_cover_requests, cover_req,
                       cover_worker, rx_cover>>

\* App::new followed by the schedule_cover_request run_app makes before its
\* loop: nothing is cached, the channels are empty, the worker waits, and the
\* request for the first book is pending.
CoverInit ==
    /\ cover_cache = {}
    /\ cover_missing = {}
    /\ pending_cover_requests = {}
    /\ current_library_cover = None
    /\ last_library_selection = IF books = <<>> THEN None ELSE Some(books[1].id)
    /\ pending_cover_request =
          IF books = <<>> THEN None
          ELSE Some([book_id |-> books[1].id, path |-> books[1].id])
    /\ cover_req = [value |-> None, changed |-> FALSE]
    /\ cover_worker = [pc |-> "changed", req |-> None]
    /\ rx_cover = <<>>

\* The books table after `add`: every document at chapter 0, line 0.
InitialRows ==
    [i \in 1..Len(LibraryDocuments) |->
        [id |-> LibraryDocuments[i].id, current_chapter |-> 0, current_line |-> 0,
         lines_read |-> 0]]

Init ==
    /\ view = "Library"
    /\ current_book = None
    /\ books = InitialRows
    /\ selected_book_index = 0
    /\ db_books = InitialRows
    /\ db_annotations = <<>>
    /\ toc_items = 0
    /\ selected_toc_index = 0
    /\ all_annotations = <<>>
    /\ current_annotations = <<>>
    /\ selected_annotation_index = 0
    /\ annotation_filter = "All"
    /\ search_query = <<>>
    /\ global_search_query = <<>>
    /\ global_search_results = <<>>
    /\ DictInit
    /\ ParserInit
    /\ CoverInit
    /\ lastOp = "new"
    /\ prevOp = "new"

\* ------------------------------------------------------------ unit switching
\* The cursor reset every unit switch starts with.
reset_cursor(book, chapter_idx) ==
    [book EXCEPT !.current_chapter = chapter_idx,
                 !.current_line = 0,
                 !.viewport_top = 0,
                 !.word_index = 0,
                 !.selection_anchor = None]

\* Variant: the loaded annotations are left as they were.
install_content_keep_annotations(book, items, annos) ==
    LET flat == flatten_content(items)
    IN  [book EXCEPT !.chapter_content = flat.lines,
                     !.image_protocols = flat.protocols]

\* Replace the render buffer and the loaded annotations of the book.
install_content(book, items, annos) ==
    LET flat == flatten_content(items)
    IN  [book EXCEPT !.chapter_content = flat.lines,
                     !.image_protocols = flat.protocols,
                     !.chapter_annotations = annos]

\* App::save_progress: the books table afterwards.  (The reading_sessions
\* log it also feeds is not part of the model.)
save_progress_rows(rows, book) ==
    update_progress(rows, book.id, book.current_chapter, book.current_line,
                    book.words_read)

\* The body shared by next_chapter, prev_chapter, jump_to_toc and the
\* other-unit branch of jump_to_annotation, entered with the cursor already
\* moved: extract, flatten, reload annotations, save.  An extraction error
\* returns early and leaves the moved cursor over the old buffer.
enter_unit(moved, table) ==
    LET c == get_chapter_content(moved.id, moved.current_chapter)
    IN  IF c.ok
        THEN [ok |-> TRUE,
              book |-> install_content(moved, c.items,
                          annotations_of_chapter(table, moved.id,
                                                 moved.current_chapter))]
        ELSE [ok |-> FALSE, book |-> moved]

\* Commit the outcome r of enter_unit: the book, and the progress row when saved.
CommitUnit(r) ==
    /\ current_book' = Some(r.book)
    /\ db_books' = IF r.ok THEN save_progress_rows(db_books, r.book) ELSE db_books

\* Variant: a failed extraction leaves a handle with an empty unit.
load_book_partial(record, table) ==
    LET c == get_chapter_content(record.id, record.current_chapter)
        flat == flatten_content(c.items)
    IN  Some([id |-> record.id,
              current_chapter |-> record.current_chapter,
              current_line |-> record.current_line,
              viewport_top |-> record.current_line,
              chapter_content |-> flat.lines,
              image_protocols |-> flat.protocols,
              word_index |-> 0,
              selection_anchor |-> None,
              chapter_annotations |->
                  annotations_of_chapter(table, record.id, record.current_chapter),
              words_read |-> 0])

\* App::load_book: None when the document cannot be opened or the first unit
\* cannot be extracted.
load_book(record, table) ==
    LET c == get_chapter_content(record.id, record.current_chapter)
        flat == flatten_content(c.items)
    IN  IF c.ok
        THEN Some([id |-> record.id,
                   current_chapter |-> record.current_chapter,
                   current_line |-> record.current_line,
                   viewport_top |-> record.current_line,
                   chapter_content |-> flat.lines,
                   image_protocols |-> flat.protocols,
                   word_index |-> 0,
                   selection_anchor |-> None,
                   chapter_annotations |->
                       annotations_of_chapter(table, record.id, record.current_chapter),
                   words_read |-> 0])
        ELSE None

\* ---------------------------------------------------------------- Library
\* Library: Down / 'j'
LibraryDown ==
    /\ view = "Library"
    /\ selected_book_index' =
          IF Len(books) > 0 THEN (selected_book_index + 1) % Len(books)
          ELSE selected_book_index
    /\ IF Len(books) > 0
       THEN schedule_cover_request(books, selected_book_index')
       ELSE UNCHANGED coverVars
    /\ Record("library_down")
    /\ UNCHANGED <<view, current_book, books, dbVars, tocVars, annoListVars, searchVars,
                   dictVars, parserVars>>

\* Library: Up / 'k'
LibraryUp ==
    /\ view = "Library"
    /\ selected_book_index' =
          IF Len(books) > 0
          THEN (IF selected_book_index > 0 THEN selected_book_index - 1
                ELSE Len(books) - 1)
          ELSE selected_book_index
    /\ IF Len(books) > 0
       THEN schedule_cover_request(books, selected_book_index')
       ELSE UNCHANGED coverVars
    /\ Record("library_up")
    /\ UNCHANGED <<view, current_book, books, dbVars, tocVars, annoListVars, searchVars,
                   dictVars, parserVars>>

\* open_selected_book, as called with the selection at index idx
OpenSelected(idx) ==
    LET record == books[idx + 1]
        loaded == load_book(record, db_annotations)
    IN  IF IsSome(loaded)
        THEN /\ current_book' = loaded
             /\ db_books' = update_progress(db_books, record.id, record.current_chapter,
                                            record.current_line, 0)
             /\ view' = "Reader"
        ELSE UNCHANGED <<current_book, db_books, view>>

\* Library: Enter
LibraryEnter ==
    /\ view = "Library"
    /\ IF Len(books) = 0
       THEN UNCHANGED <<current_book, db_books, view>>
       ELSE OpenSelected(selected_book_index)
    /\ Record("open_selected_book")
    /\ UNCHANGED <<libraryVars, db_annotations, tocVars, annoListVars, searchVars,
                   dictVars, parserVars, coverVars>>

\* App::refresh_current_book_render_cache
refresh_current_book_render_cache(book) ==
    LET c == get_chapter_content(book.id, book.current_chapter)
        flat == flatten_content(c.items)
    IN  IF c.ok
        THEN [book EXCEPT !.chapter_content = flat.lines,
                          !.image_protocols = flat.protocols]
        ELSE book

\* Library: 'p' (image protocol change)
LibraryProtocol ==
    /\ view = "Library"
    /\ current_book' = IF HasBook
                       THEN Some(refresh_current_book_render_cache(Book))
                       ELSE current_book
    /\ schedule_cover_request(books, selected_book_index)
    /\ Record("refresh_render_cache")
    /\ UNCHANGED <<view, libraryVars, dbVars, tocVars, annoListVars, searchVars, dictVars,
                   parserVars>>

\* Library: 'S'
LibraryGlobalSearch ==
    /\ view = "Library"
    /\ view' = "GlobalSearch"
    /\ global_search_query' = <<>>
    /\ global_search_results' = <<>>
    /\ Record("open_global_search")
    /\ UNCHANGED <<current_book, libraryVars, dbVars, tocVars, annoListVars, search_query,
                   dictVars, parserVars, coverVars>>

\* ----------------------------------------------------------------- Reader
\* App::refresh_library: the cached rows are re-read from the table.  (The
\* table is read in id order; the last_read ordering only permutes the list.)
refresh_library_index(rows, idx) ==
    IF rows = <<>> THEN 0 ELSE IF idx >= Len(rows) THEN 0 ELSE idx

\* App::refresh_library, the cover state: everything is dropped for an empty
\* library, else only the entries of books still listed are retained.
refresh_library_covers(rows) ==
    LET valid_ids == {rows[i].id : i \in 1..Len(rows)}
    IN  IF rows = <<>>
        THEN [last |-> None, cover |-> None, cache |-> cover_cache,
              missing |-> cover_missing, pending |-> pending_cover_requests]
        ELSE [last |-> last_library_selection, cover |-> current_library_cover,
              cache |-> {e \in cover_cache : e[1] \in valid_ids},
              missing |-> cover_missing \cap valid_ids,
              pending |-> pending_cover_requests \cap valid_ids]

\* Reader: 'q'
ReaderQuit ==
    /\ view = "Reader"
    /\ db_books' = IF HasBook THEN save_progress_rows(db_books, Book) ELSE db_books
    /\ view' = "Library"
    /\ books' = db_books'
    /\ selected_book_index' = refresh_library_index(db_books', selected_book_index)
    /\ LET kept == refresh_library_covers(books')
           r == cover_request_for_selected(books', selected_book_index', kept.last,
                    kept.cover, kept.cache, kept.missing, kept.pending)
       IN  /\ cover_cache' = kept.cache
           /\ cover_missing' = kept.missing
           /\ pending_cover_requests' = kept.pending
           /\ last_library_selection' = r.last
           /\ current_library_cover' = r.cover
           /\ pending_cover_request' = r.request
    /\ Record("quit_reader")
    /\ UNCHANGED <<current_book, db_annotations, tocVars, annoListVars, searchVars,
                   dictVars, parserVars, cover_req, cover_worker, rx_cover>>

\* Reader: 's'
ReaderSelect ==
    /\ view = "Reader"
    /\ view' = "Select"
    /\ Record("select_mode")
    /\ UNCHANGED <<current_book, libraryVars, dbVars, tocVars, annoListVars, searchVars,
                   dictVars, parserVars, coverVars>>

\* Reader: Down / 'j'
ReaderScrollDown ==
    /\ view = "Reader"
    /\ HasBook => scroll_viewport_down(Book).words_read <= MaxWordsRead
    /\ current_book' = IF HasBook THEN Some(scroll_viewport_down(Book)) ELSE current_book
    /\ Record("scroll_viewport_down")
    /\ UNCHANGED <<view, libraryVars, dbVars, tocVars, annoListVars, searchVars, dictVars,
                   parserVars, coverVars>>

\* Reader: Up / 'k'
ReaderScrollUp ==
    /\ view = "Reader"
    /\ current_book' = IF HasBook THEN Some(scroll_viewport_up(Book)) ELSE current_book
    /\ Record("scroll_viewport_up")
    /\ UNCHANGED <<view, libraryVars, dbVars, tocVars, annoListVars, searchVars, dictVars,
                   parserVars, coverVars>>

\* Reader: Right / 'l'  (App::next_chapter)
ReaderNextChapter ==
    /\ view = "Reader"
    /\ IF HasBook /\ Book.current_chapter + 1 < get_chapter_count(Book.id)
       THEN CommitUnit(enter_unit(reset_cursor(Book, Book.current_chapter + 1),
                                  db_annotations))
       ELSE UNCHANGED <<current_book, db_books>>
    /\ Record("next_chapter")
    /\ UNCHANGED <<view, libraryVars, db_annotations, tocVars, annoListVars, searchVars,
                   dictVars, parserVars, coverVars>>

\* Reader: Left / 'h'  (App::prev_chapter)
ReaderPrevChapter ==
    /\ view = "Reader"
    /\ IF HasBook /\ Book.current_chapter > 0
       THEN CommitUnit(enter_unit(reset_cursor(Book, Book.current_chapter - 1),
                                  db_annotations))
       ELSE UNCHANGED <<current_book, db_books>>
    /\ Record("prev_chapter")
    /\ UNCHANGED <<view, libraryVars, db_annotations, tocVars, annoListVars, searchVars,
                   dictVars, parserVars, coverVars>>

\* Reader: 't'  (App::open_toc)
ReaderOpenToc ==
    /\ view = "Reader"
    /\ IF HasBook
       THEN /\ toc_items' = get_toc(Book.id)
            /\ selected_toc_index' = Book.current_chapter
            /\ view' = "Toc"
       ELSE UNCHANGED <<toc_items, selected_toc_index, view>>
    /\ Record("open_toc")
    /\ UNCHANGED <<current_book, libraryVars, dbVars, annoListVars, searchVars, dictVars,
                   parserVars, coverVars>>

\* Reader: '[' / '-' / ']' / '+' / '='  (App::adjust_margin).  The margin is
\* the part of the layout from which the window height of the next key is
\* computed; the book is not touched.
ReaderAdjustMargin ==
    /\ view = "Reader"
    /\ Record("adjust_margin")
    /\ UNCHANGED <<view, current_book, libraryVars, dbVars, tocVars, annoListVars,
                   searchVars, dictVars, parserVars, coverVars>>

\* Reader: '/'
ReaderSearch ==
    /\ view = "Reader"
    /\ view' = "Search"
    /\ search_query' = <<>>
    /\ Record("open_search")
    /\ UNCHANGED <<current_book, libraryVars, dbVars, tocVars, annoListVars,
                   global_search_query, global_search_results, dictVars, parserVars,
                   coverVars>>

\* ---------------------------------------------------------- Select / Visual
InSelect == view \in {"Select", "Visual"}

\* Select/Visual: Down / 'j'
SelectMoveDown ==
    /\ InSelect
    /\ \E height \in Heights :
          current_book' = IF HasBook THEN Some(move_cursor_down(Book, height))
                          ELSE current_book
    /\ Record("move_cursor_down")
    /\ UNCHANGED <<view, libraryVars, dbVars, tocVars, annoListVars, searchVars, dictVars,
                   parserVars, coverVars>>

\* Select/Visual: Up / 'k'
SelectMoveUp ==
    /\ InSelect
    /\ current_book' = IF HasBook THEN Some(move_cursor_up(Book)) ELSE current_book
    /\ Record("move_cursor_up")
    /\ UNCHANGED <<view, libraryVars, dbVars, tocVars, annoListVars, searchVars, dictVars,
                   parserVars, coverVars>>

\* Select/Visual: 'w'
SelectCursorRight ==
    /\ InSelect
    /\ \E height \in Heights :
          current_book' = IF HasBook THEN Some(cursor_right(Book, height))
                          ELSE current_book
    /\ Record("cursor_right")
    /\ UNCHANGED <<view, libraryVars, dbVars, tocVars, annoListVars, searchVars, dictVars,
                   parserVars, coverVars>>

\* Select/Visual: 'b'
SelectCursorLeft ==
    /\ InSelect
    /\ current_book' = IF HasBook THEN Some(cursor_left(Book)) ELSE current_book
    /\ Record("cursor_left")
    /\ UNCHANGED <<view, libraryVars, dbVars, tocVars, annoListVars, searchVars, dictVars,
                   parserVars, coverVars>>

\* App::enter_visual_mode: anchors only on a text line.
enter_visual_mode(book) ==
    IF IsText(line_at(book.chapter_content, book.current_line))
    THEN Some([book EXCEPT
                 !.selection_anchor = Some(<<book.current_line, book.word_index>>)])
    ELSE None

\* App::exit_visual_mode
\* Variant: the anchor is left set.
exit_visual_mode_keep_anchor(book) == book

exit_visual_mode(book) == [book EXCEPT !.selection_anchor = None]
exit_visual_view(v) == IF v = "Visual" THEN "Select" ELSE v

\* Select/Visual: 'v'
SelectToggleVisual ==
    /\ InSelect
    /\ IF view = "Visual"
       THEN /\ current_book' = IF HasBook THEN Some(exit_visual_mode(Book))
                               ELSE current_book
            /\ view' = IF HasBook THEN exit_visual_view(view) ELSE view
            /\ Record("exit_visual_mode")
       ELSE /\ IF HasBook /\ IsSome(enter_visual_mode(Book))
               THEN /\ current_book' = enter_visual_mode(Book)
                    /\ view' = "Visual"
               ELSE UNCHANGED <<current_book, view>>
            /\ Record("enter_visual_mode")
    /\ UNCHANGED <<libraryVars, dbVars, tocVars, annoListVars, searchVars, dictVars,
                   parserVars, coverVars>>

\* Select/Visual: Esc
SelectEsc ==
    /\ InSelect
    /\ IF view = "Visual"
       THEN /\ current_book' = IF HasBook THEN Some(exit_visual_mode(Book))
                               ELSE current_book
            /\ view' = IF HasBook THEN exit_visual_view(view) ELSE view
       ELSE /\ view' = "Reader"
            /\ UNCHANGED current_book
    /\ Record("select_esc")
    /\ UNCHANGED <<libraryVars, dbVars, tocVars, annoListVars, searchVars, dictVars,
                   parserVars, coverVars>>

\* --------------------------------------------------------------- Dictionary
\* char::is_alphabetic over the characters the documents use.
is_alphabetic(c) ==
    c \in {"a", "b", "c", "d", "e", "f", "g", "h", "w", "x", "y", "z", "E", "m", "p", "t"}

\* The replies a lookup of a word can end with: the entries the service has
\* for the word, headed by the word, or the message for a word it does not
\* have.  What tells the replies of two words apart is only this text.
Replies(word) == { <<"#", " ">> \o word, <<"N", "o", " ", "d", "e", "f">> }

Loading == <<"L", "o", "a", "d", "i", "n", "g">>

\* Db::add_to_vocabulary: a new word is inserted with the definition; for a
\* word already there the stored definition stays.  (The lookup count and
\* time the conflict branch updates are columns the model does not carry.)
add_to_vocabulary(table, word, definition) ==
    IF \E v \in table : v.word = word THEN table
    ELSE table \cup {[word |-> word, definition |-> definition]}

\* Select/Visual: 'd'.  The task spawned for the lookup is remembered with the
\* word it was given.
SelectDictionary ==
    /\ InSelect
    /\ LET cur == IF HasBook THEN line_at(Book.chapter_content, Book.current_line)
                  ELSE None
           words == IF IsText(cur) THEN split_whitespace(Unwrap(cur).text) ELSE <<>>
           clean_word == IF HasBook /\ Book.word_index < Len(words)
                         THEN SelectSeq(words[Book.word_index + 1], is_alphabetic)
                         ELSE <<>>
       IN  IF clean_word # <<>>
           THEN /\ Len(lookups) + Len(rx_dict) < MaxLookups
                /\ dictionary_query' = clean_word
                /\ view' = "Dictionary"
                /\ dictionary_result' = Loading
                /\ lookups' = Append(lookups, clean_word)
           ELSE UNCHANGED <<dictionary_query, view, dictionary_result, lookups>>
    /\ Record("lookup_word")
    /\ UNCHANGED <<current_book, libraryVars, dbVars, tocVars, annoListVars, searchVars,
                   vocabulary, rx_dict, parserVars, coverVars>>

\* A spawned task: perform_lookup returns and the result, a String, is sent on
\* the channel.  The tasks are independent, so any of them may finish next.
\* The word field of a message is not sent: it records which task sent it.
LookupComplete ==
    /\ \E i \in 1..Len(lookups) : \E reply \in Replies(lookups[i]) :
          /\ lookups' = SubSeq(lookups, 1, i - 1) \o SubSeq(lookups, i + 1, Len(lookups))
          /\ rx_dict' = Append(rx_dict, [word |-> lookups[i], result |-> reply])
    /\ Record("perform_lookup")
    /\ UNCHANGED <<view, current_book, libraryVars, dbVars, tocVars, annoListVars,
                   searchVars, dictionary_query, dictionary_result, vocabulary, parserVars,
                   coverVars>>

\* The event loop, in any view: rx_dict.try_recv() with a result waiting.
ReceiveLookup ==
    /\ rx_dict # <<>>
    /\ LET res == Head(rx_dict).result
       IN  /\ dictionary_result' = res
           /\ vocabulary' = add_to_vocabulary(vocabulary, dictionary_query, res)
    /\ rx_dict' = Tail(rx_dict)
    /\ Record("receive_lookup")
    /\ UNCHANGED <<view, current_book, libraryVars, dbVars, tocVars, annoListVars,
                   searchVars, dictionary_query, lookups, parserVars, coverVars>>

\* Dictionary: 'q' / Esc
DictionaryClose ==
    /\ view = "Dictionary"
    /\ view' = "Select"
    /\ Record("close_dictionary")
    /\ UNCHANGED <<current_book, libraryVars, dbVars, tocVars, annoListVars, searchVars,
                   dictVars, parserVars, coverVars>>

\* ------------------------------------------------------ AnnotationOverlay
AnnotationKinds == {"highlight", "question", "summary"}

\* The row add_quick_highlight_kind inserts for the book, or None: the active
\* selection with its text when an anchor is set, else the word under the cursor.
quick_highlight_row(book, kind) ==
    LET range == get_selection_range(book)
        selected_text == IF IsSome(range) THEN get_selected_text(book) ELSE <<>>
        cur == line_at(book.chapter_content, book.current_line)
    IN  IF IsSome(range)
        THEN IF selected_text # <<>>
             THEN Some(AnnotationRecord(book.id, book.current_chapter,
                          Unwrap(range)[1], Unwrap(range)[2],
                          Unwrap(range)[3], Unwrap(range)[4], selected_text, kind))
             ELSE None
        ELSE IF IsText(cur) /\ book.word_index < word_count(Unwrap(cur))
             THEN Some(AnnotationRecord(book.id, book.current_chapter,
                          book.current_line, book.word_index,
                          book.current_line, book.word_index,
                          split_whitespace(Unwrap(cur).text)[book.word_index + 1], kind))
             ELSE None

\* Select/Visual: 'h' / 'q' / 'm'  (App::add_quick_highlight_kind)
SelectHighlight ==
    /\ InSelect
    /\ \E kind \in AnnotationKinds :
          IF HasBook
          THEN LET row == quick_highlight_row(Book, kind)
                   table == IF IsSome(row) THEN Append(db_annotations, Unwrap(row))
                            ELSE db_annotations
               IN  /\ Len(table) <= MaxAnnotations
                   /\ db_annotations' = table
                   /\ current_book' = Some(exit_visual_mode(
                         [Book EXCEPT !.chapter_annotations =
                             annotations_of_chapter(table, Book.id, Book.current_chapter)]))
                   /\ view' = exit_visual_view(view)
          ELSE UNCHANGED <<db_annotations, current_book, view>>
    /\ Record("add_quick_highlight")
    /\ UNCHANGED <<libraryVars, db_books, tocVars, annoListVars, searchVars, dictVars,
                   parserVars, coverVars>>

\* Select/Visual: 'a'  (the note box opens; the book is not touched)
SelectAnnotate ==
    /\ InSelect
    /\ view' = "Annotation"
    /\ Record("open_annotation_note")
    /\ UNCHANGED <<current_book, libraryVars, dbVars, tocVars, annoListVars, searchVars,
                   dictVars, parserVars, coverVars>>

\* The row add_annotation_with_note inserts for the book, or None.  The
\* content is the selected text when an anchor is set, else the current text
\* line; the row is written only with the cursor on a text line.  (The note
\* typed into the box is a column the model's rows do not carry.)
note_annotation_row(book) ==
    LET range == get_selection_range(book)
        cur == line_at(book.chapter_content, book.current_line)
        content == IF IsSome(range) THEN get_selected_text(book)
                   ELSE IF IsText(cur) THEN Unwrap(cur).text ELSE <<>>
        r == IF IsSome(range) THEN Unwrap(range)
             ELSE <<book.current_line, 0, book.current_line,
                    saturating_sub(word_count(Unwrap(cur)), 1)>>
    IN  IF IsText(cur) /\ content # <<>>
        THEN Some(AnnotationRecord(book.id, book.current_chapter,
                     r[1], r[2], r[3], r[4], content, "summary"))
        ELSE None

\* Annotation: Enter  (App::add_annotation_with_note)
AnnotationEnter ==
    /\ view = "Annotation"
    /\ IF HasBook
       THEN LET row == note_annotation_row(Book)
                table == IF IsSome(row) THEN Append(db_annotations, Unwrap(row))
                         ELSE db_annotations
                noted == IF IsSome(row)
                         THEN [Book EXCEPT !.chapter_annotations =
                                 annotations_of_chapter(table, Book.id,
                                                        Book.current_chapter)]
                         ELSE Book
            IN  /\ Len(table) <= MaxAnnotations
                /\ db_annotations' = table
                /\ current_book' = Some(exit_visual_mode(noted))
       ELSE UNCHANGED <<db_annotations, current_book>>
    /\ view' = "Reader"
    /\ Record("add_annotation_with_note")
    /\ UNCHANGED <<libraryVars, db_books, tocVars, annoListVars, searchVars, dictVars,
                   parserVars, coverVars>>

\* Annotation: Esc
AnnotationEsc ==
    /\ view = "Annotation"
    /\ view' = "Select"
    /\ Record("close_annotation_note")
    /\ UNCHANGED <<current_book, libraryVars, dbVars, tocVars, annoListVars, searchVars,
                   dictVars, parserVars, coverVars>>

\* Variant: the stored string is taken as the kind.
kind_from_str_verbatim(value) == value

\* AnnotationKind::from_str
kind_from_str(value) ==
    IF value = "question" THEN "question"
    ELSE IF value = "summary" THEN "summary"
    ELSE "highlight"

\* App::apply_annotation_filter: the visible subset
apply_annotation_filter(all, filter) ==
    IF filter = "All" THEN all
    ELSE SelectSeq(all, LAMBDA a : kind_from_str(a.kind) = filter)

\* Reader: 'A'  (App::load_annotations)
ReaderAnnotations ==
    /\ view = "Reader"
    /\ IF HasBook
       THEN /\ all_annotations' = get_annotations(db_annotations, Book.id)
            /\ current_annotations' =
                  apply_annotation_filter(all_annotations', annotation_filter)
            /\ selected_annotation_index' = 0
            /\ view' = "AnnotationList"
       ELSE UNCHANGED <<all_annotations, current_annotations,
                        selected_annotation_index, view>>
    /\ Record("load_annotations")
    /\ UNCHANGED <<current_book, libraryVars, dbVars, tocVars, annotation_filter,
                   searchVars, dictVars, parserVars, coverVars>>

AnnotationFilters == {"All", "highlight", "question", "summary"}

\* AnnotationList: '1'..'4'  (App::set_annotation_filter)
AnnoListFilter ==
    /\ view = "AnnotationList"
    /\ \E filter \in AnnotationFilters :
          /\ annotation_filter' = filter
          /\ current_annotations' = apply_annotation_filter(all_annotations, filter)
    /\ selected_annotation_index' = 0
    /\ Record("set_annotation_filter")
    /\ UNCHANGED <<view, current_book, libraryVars, dbVars, tocVars, all_annotations,
                   searchVars, dictVars, parserVars, coverVars>>

\* AnnotationList: Down / 'j' and Up / 'k'
AnnoListMove ==
    /\ view = "AnnotationList"
    /\ current_annotations # <<>>
    /\ \/ selected_annotation_index' =
             (selected_annotation_index + 1) % Len(current_annotations)
       \/ selected_annotation_index' =
             IF selected_annotation_index > 0 THEN selected_annotation_index - 1
             ELSE Len(current_annotations) - 1
    /\ Record("annotation_list_move")
    /\ UNCHANGED <<view, current_book, libraryVars, dbVars, tocVars, all_annotations,
                   current_annotations, annotation_filter, searchVars, dictVars,
                   parserVars, coverVars>>

\* AnnotationList: 'q' / Esc
AnnoListClose ==
    /\ view = "AnnotationList"
    /\ view' = "Reader"
    /\ Record("close_annotation_list")
    /\ UNCHANGED <<current_book, libraryVars, dbVars, tocVars, annoListVars, searchVars,
                   dictVars, parserVars, coverVars>>

\* Variant: the viewport is left where it was.
place_at_annotation_keep_viewport(book, anno) ==
    [book EXCEPT !.current_line = anno.start_line,
                 !.word_index = anno.start_word,
                 !.selection_anchor = None]

\* The cursor placement jump_to_annotation makes in both of its branches.
place_at_annotation(book, anno) ==
    [book EXCEPT !.current_line = anno.start_line,
                 !.viewport_top = anno.start_line,
                 !.word_index = anno.start_word,
                 !.selection_anchor = None]

\* AnnotationList: Enter  (App::jump_to_annotation)
AnnoListJump ==
    /\ view = "AnnotationList"
    /\ IF HasBook /\ selected_annotation_index < Len(current_annotations)
       THEN LET anno == current_annotations[selected_annotation_index + 1]
            IN  IF Book.current_chapter # anno.chapter
                THEN LET r == enter_unit(
                                 [place_at_annotation(Book, anno) EXCEPT
                                     !.current_chapter = anno.chapter],
                                 db_annotations)
                     IN  /\ CommitUnit(r)
                         /\ view' = IF r.ok THEN "Reader" ELSE view
                ELSE /\ current_book' = Some(place_at_annotation(Book, anno))
                     /\ view' = "Reader"
                     /\ UNCHANGED db_books
       ELSE UNCHANGED <<current_book, db_books, view>>
    /\ Record("jump_to_annotation")
    /\ UNCHANGED <<libraryVars, db_annotations, tocVars, annoListVars, searchVars,
                   dictVars, parserVars, coverVars>>

\* --------------------------------------------------------------------- Toc
\* Toc: Down / 'j' and Up / 'k'
TocMove ==
    /\ view = "Toc"
    /\ toc_items > 0
    /\ \/ selected_toc_index' = (selected_toc_index + 1) % toc_items
       \/ selected_toc_index' =
             IF selected_toc_index > 0 THEN selected_toc_index - 1 ELSE toc_items - 1
    /\ Record("toc_move")
    /\ UNCHANGED <<view, current_book, libraryVars, dbVars, toc_items, annoListVars,
                   searchVars, dictVars, parserVars, coverVars>>

\* Toc: 'q' / Esc
TocClose ==
    /\ view = "Toc"
    /\ view' = "Reader"
    /\ Record("close_toc")
    /\ UNCHANGED <<current_book, libraryVars, dbVars, tocVars, annoListVars, searchVars,
                   dictVars, parserVars, coverVars>>

\* Toc: Enter  (App::jump_to_toc)
TocJump ==
    /\ view = "Toc"
    /\ IF HasBook
       THEN LET r == enter_unit(reset_cursor(Book, selected_toc_index), db_annotations)
            IN  /\ CommitUnit(r)
                /\ view' = IF r.ok THEN "Reader" ELSE view
       ELSE UNCHANGED <<current_book, db_books, view>>
    /\ Record("jump_to_toc")
    /\ UNCHANGED <<libraryVars, db_annotations, tocVars, annoListVars, searchVars,
                   dictVars, parserVars, coverVars>>

\* ------------------------------------------------------------------ Search
\* str::contains
contains(text, q) ==
    \E i \in 0..(Len(text) - Len(q)) : SubSeq(text, i + 1, i + Len(q)) = q

\* str::to_lowercase on the characters the documents use
to_lowercase(text) ==
    [i \in 1..Len(text) |-> IF text[i] = "E" THEN "e" ELSE text[i]]

\* .iter().skip(current_line + 1).position(text line containing the query)
search_position(book, q) ==
    LET hits == {p \in 0..(Len(book.chapter_content) - 1) :
                    /\ IsText(line_at(book.chapter_content, book.current_line + 1 + p))
                    /\ contains(
                          Unwrap(line_at(book.chapter_content,
                                         book.current_line + 1 + p)).text, q)}
    IN  IF hits = {} THEN None
        ELSE Some(CHOOSE p \in hits : \A o \in hits : p <= o)

RECURSIVE repeat_move_cursor_down(_, _, _)
\* for _ in 0..n { move_cursor_down(height) }
repeat_move_cursor_down(book, height, n) ==
    IF n = 0 THEN book
    ELSE repeat_move_cursor_down(move_cursor_down(book, height), height, n - 1)

\* Search: Enter
SearchEnter ==
    /\ view = "Search"
    /\ \E viewport_height \in Heights :
          current_book' =
             IF HasBook /\ IsSome(search_position(Book, search_query))
             THEN Some(repeat_move_cursor_down(Book, viewport_height,
                          Unwrap(search_position(Book, search_query)) + 1))
             ELSE current_book
    /\ view' = "Reader"
    /\ Record("search_jump")
    /\ UNCHANGED <<libraryVars, dbVars, tocVars, annoListVars, searchVars, dictVars,
                   parserVars, coverVars>>

\* Search: Esc
SearchEsc ==
    /\ view = "Search"
    /\ view' = "Reader"
    /\ Record("close_search")
    /\ UNCHANGED <<current_book, libraryVars, dbVars, tocVars, annoListVars, searchVars,
                   dictVars, parserVars, coverVars>>

\* Search: a character key, Backspace
SearchType ==
    /\ view = "Search"
    /\ \/ \E c \in QueryChars :
             /\ Len(search_query) < MaxQueryLen
             /\ search_query' = Append(search_query, c)
       \/ /\ search_query # <<>>
          /\ search_query' = SubSeq(search_query, 1, Len(search_query) - 1)
    /\ Record("search_type")
    /\ UNCHANGED <<view, current_book, libraryVars, dbVars, tocVars, annoListVars,
                   global_search_query, global_search_results, dictVars, parserVars,
                   coverVars>>

\* ------------------------------------------------------------ GlobalSearch
RECURSIVE chapter_hits(_, _, _, _)
\* The hits of one chapter: one <<book_id, chapter>> per matching text line.
chapter_hits(id, chapter, ls, q) ==
    IF ls = <<>> THEN <<>>
    ELSE (IF Head(ls).kind = "Text"
             /\ contains(to_lowercase(Head(ls).text), to_lowercase(q))
          THEN << <<id, chapter>> >> ELSE <<>>)
         \o chapter_hits(id, chapter, Tail(ls), q)

RECURSIVE book_hits(_, _, _)
book_hits(id, chapter, q) ==
    IF chapter >= get_chapter_count(id) THEN <<>>
    ELSE chapter_hits(id, chapter,
                      flatten_content(get_chapter_content(id, chapter).items).lines, q)
         \o book_hits(id, chapter + 1, q)

RECURSIVE library_hits(_, _)
library_hits(rows, q) ==
    IF rows = <<>> THEN <<>>
    ELSE book_hits(Head(rows).id, 0, q) \o library_hits(Tail(rows), q)

\* App::global_search: the search stops once more than 50 hits are collected.
global_search(rows, q) ==
    LET all == library_hits(rows, q)
    IN  SubSeq(all, 1, Min(Len(all), 51))

\* Position of the book with the given id in App::books, or None.
book_position(rows, id) ==
    LET at == {i \in 1..Len(rows) : rows[i].id = id}
    IN  IF at = {} THEN None ELSE Some((CHOOSE i \in at : \A j \in at : i <= j) - 1)

\* The unit replacement the hit handler makes on whatever book is then open.
show_hit_chapter(book, chapter) ==
    LET c == get_chapter_content(book.id, chapter)
        flat == flatten_content(c.items)
    IN  [book EXCEPT !.current_chapter = chapter,
                     !.chapter_content = flat.lines,
                     !.image_protocols = flat.protocols]

\* GlobalSearch: Enter with results: open the book of the selected hit, then
\* show the hit's chapter.  (selected_search_index is never moved from 0.)
GlobalSearchJump ==
    /\ view = "GlobalSearch"
    /\ global_search_results # <<>>
    /\ LET hit == global_search_results[1]
           idx == book_position(books, hit[1])
       IN  IF IsSome(idx)
           THEN LET loaded == load_book(books[Unwrap(idx) + 1], db_annotations)
                    opened == IF IsSome(loaded) THEN loaded ELSE current_book
                IN  /\ selected_book_index' = Unwrap(idx)
                    /\ view' = IF IsSome(loaded) THEN "Reader" ELSE view
                    /\ db_books' =
                          IF IsSome(loaded)
                          THEN update_progress(db_books, hit[1],
                                  books[Unwrap(idx) + 1].current_chapter,
                                  books[Unwrap(idx) + 1].current_line, 0)
                          ELSE db_books
                    /\ current_book' =
                          IF IsSome(opened)
                          THEN Some(show_hit_chapter(Unwrap(opened), hit[2]))
                          ELSE opened
           ELSE UNCHANGED <<selected_book_index, view, db_books, current_book>>
    /\ Record("global_search_jump")
    /\ UNCHANGED <<books, db_annotations, tocVars, annoListVars, searchVars, dictVars,
                   parserVars, coverVars>>

\* GlobalSearch: Enter without results: run the search
GlobalSearchRun ==
    /\ view = "GlobalSearch"
    /\ global_search_results = <<>>
    /\ global_search_results' = global_search(db_books, global_search_query)
    /\ Record("global_search")
    /\ UNCHANGED <<view, current_book, libraryVars, dbVars, tocVars, annoListVars,
                   search_query, global_search_query, dictVars, parserVars, coverVars>>

\* GlobalSearch: a character key, Backspace
GlobalSearchType ==
    /\ view = "GlobalSearch"
    /\ \/ \E c \in QueryChars :
             /\ Len(global_search_query) < MaxQueryLen
             /\ global_search_query' = Append(global_search_query, c)
       \/ /\ global_search_query # <<>>
          /\ global_search_query' =
                SubSeq(global_search_query, 1, Len(global_search_query) - 1)
    /\ Record("global_search_type")
    /\ UNCHANGED <<view, current_book, libraryVars, dbVars, tocVars, annoListVars,
                   search_query, global_search_results, dictVars, parserVars, coverVars>>

\* GlobalSearch: Esc
GlobalSearchEsc ==
    /\ view = "GlobalSearch"
    /\ view' = "Library"
    /\ schedule_cover_request(books, selected_book_index)
    /\ Record("close_global_search")
    /\ UNCHANGED <<current_book, libraryVars, dbVars, tocVars, annoListVars, searchVars,
                   dictVars, parserVars>>

\* ------------------------------------------------------- cover requests
\* run_app, the deadline check of a pass of the loop: in the Library view a
\* pending request whose deadline has passed is marked in flight and sent,
\* replacing the value the watch channel held; in any other view the pending
\* request is dropped.
CoverDeadline ==
    /\ IsSome(pending_cover_request)
    /\ IF view = "Library"
       THEN /\ pending_cover_requests' =
                  pending_cover_requests \cup {Unwrap(pending_cover_request).book_id}
            /\ cover_req' = [value |-> pending_cover_request, changed |-> TRUE]
       ELSE UNCHANGED <<pending_cover_requests, cover_req>>
    /\ pending_cover_request' = None
    /\ Record("cover_deadline")
    /\ UNCHANGED <<view, current_book, libraryVars, dbVars, tocVars, annoListVars,
                   searchVars, dictVars, parserVars, cover_cache, cover_missing,
                   current_library_cover, last_library_selection, cover_worker,
                   rx_cover>>

\* The cover worker: rx_cover_req.changed().await returns once the channel
\* holds a value the worker has not seen.
CoverWorkerChanged ==
    /\ cover_worker.pc = "changed"
    /\ cover_req.changed
    /\ cover_req' = [cover_req EXCEPT !.changed = FALSE]
    /\ cover_worker' = [cover_worker EXCEPT !.pc = "borrow"]
    /\ Record("cover_worker_changed")
    /\ UNCHANGED <<view, current_book, libraryVars, dbVars, tocVars, annoListVars,
                   searchVars, dictVars, parserVars, cover_cache, cover_missing,
                   pending_cover_requests, current_library_cover,
                   last_library_selection, pending_cover_request, rx_cover>>

\* The cover worker: rx_cover_req.borrow().clone() takes the value the channel
\* holds now; None sends the worker back to wait.
CoverWorkerBorrow ==
    /\ cover_worker.pc = "borrow"
    /\ cover_worker' = IF IsSome(cover_req.value)
                       THEN [pc |-> "send", req |-> cover_req.value]
                       ELSE [pc |-> "changed", req |-> None]
    /\ Record("cover_worker_borrow")
    /\ UNCHANGED <<view, current_book, libraryVars, dbVars, tocVars, annoListVars,
                   searchVars, dictVars, parserVars, cover_cache, cover_missing,
                   pending_cover_requests, current_library_cover,
                   last_library_selection, pending_cover_request, cover_req, rx_cover>>

\* The cover worker: the image is loaded and the response sent, once the
\* channel has room; the worker waits for the next change.
CoverWorkerSend ==
    /\ cover_worker.pc = "send"
    /\ Len(rx_cover) < CoverChannelCapacity
    /\ LET req == Unwrap(cover_worker.req)
       IN  rx_cover' = Append(rx_cover, [book_id |-> req.book_id,
                                         image |-> load_cover_image(req.path)])
    /\ cover_worker' = [pc |-> "changed", req |-> None]
    /\ Record("cover_worker_send")
    /\ UNCHANGED <<view, current_book, libraryVars, dbVars, tocVars, annoListVars,
                   searchVars, dictVars, parserVars, cover_cache, cover_missing,
                   pending_cover_requests, current_library_cover,
                   last_library_selection, pending_cover_request, cover_req>>

\* Variant: the decoded cover is put on display whatever the selection is.
apply_cover_response_always_shown(response, last, cover) ==
    IF IsSome(response.image) THEN response.image ELSE cover

\* App::apply_cover_response, the cover on display afterwards.
apply_cover_response(response, last, cover) ==
    IF IsSome(response.image) /\ last = Some(response.book_id)
    THEN response.image
    ELSE cover

\* run_app, rx_cover.try_recv() of a pass of the loop, then
\* App::apply_cover_response.
CoverReceive ==
    /\ rx_cover # <<>>
    /\ LET response == Head(rx_cover)
       IN  /\ pending_cover_requests' = pending_cover_requests \ {response.book_id}
           /\ cover_missing' = IF IsSome(response.image)
                               THEN cover_missing \ {response.book_id}
                               ELSE cover_missing \cup {response.book_id}
           /\ cover_cache' = IF IsSome(response.image)
                             THEN cache_insert(cover_cache, response.book_id,
                                               Unwrap(response.image))
                             ELSE cover_cache
           /\ current_library_cover' =
                 apply_cover_response(response, last_library_selection,
                                      current_library_cover)
    /\ rx_cover' = Tail(rx_cover)
    /\ Record("apply_cover_response")
    /\ UNCHANGED <<view, current_book, libraryVars, dbVars, tocVars, annoListVars,
                   searchVars, dictVars, parserVars, last_library_selection,
                   pending_cover_request, cover_req, cover_worker>>

\* --------------------------------------------------------- reader rendering
\* render: Variant of the membership test written as one disjunction.
is_in_anno_disjunction(logical_i, wi, anno) ==
    \/ logical_i > anno.start_line /\ logical_i < anno.end_line
    \/ logical_i = anno.start_line /\ logical_i = anno.end_line
       /\ wi >= anno.start_word /\ wi <= anno.end_word
    \/ logical_i = anno.start_line /\ wi >= anno.start_word
    \/ logical_i = anno.end_line /\ wi <= anno.end_word

\* Variant: on a one-line annotation the end word is not consulted.
is_in_anno_open_ended(logical_i, wi, anno) ==
    IF logical_i > anno.start_line /\ logical_i < anno.end_line
    THEN TRUE
    ELSE IF logical_i = anno.start_line
    THEN wi >= anno.start_word
    ELSE IF logical_i = anno.end_line
    THEN wi <= anno.end_word
    ELSE FALSE

\* render: is_in_anno for the word wi of buffer line logical_i
is_in_anno(logical_i, wi, anno) ==
    IF logical_i > anno.start_line /\ logical_i < anno.end_line
    THEN TRUE
    ELSE IF logical_i = anno.start_line /\ logical_i = anno.end_line
    THEN wi >= anno.start_word /\ wi <= anno.end_word
    ELSE IF logical_i = anno.start_line
    THEN wi >= anno.start_word
    ELSE IF logical_i = anno.end_line
    THEN wi <= anno.end_word
    ELSE FALSE

RECURSIVE annotation_loop(_, _, _, _, _)
\* for anno in &book.chapter_annotations { if is_in_anno { style = ...; break } }
\* from the k-th annotation on; style is the background kind so far.
annotation_loop(annos, k, logical_i, wi, style) ==
    IF k > Len(annos) THEN style
    ELSE IF is_in_anno(logical_i, wi, annos[k])
    THEN Some(kind_from_str(annos[k].kind))
    ELSE annotation_loop(annos, k + 1, logical_i, wi, style)

RECURSIVE annotation_loop_no_break(_, _, _, _, _)
\* Variant: the loop runs on after a match.
annotation_loop_no_break(annos, k, logical_i, wi, style) ==
    IF k > Len(annos) THEN style
    ELSE annotation_loop_no_break(annos, k + 1, logical_i, wi,
            IF is_in_anno(logical_i, wi, annos[k])
            THEN Some(kind_from_str(annos[k].kind))
            ELSE style)

\* Variant of annotation_bg_at in which the last matching annotation wins.
annotation_bg_last_match(book, logical_i, wi) ==
    annotation_loop_no_break(book.chapter_annotations, 1, logical_i, wi, None)

\* render: the annotation background kind of word wi of line logical_i, or None.
annotation_bg_at(book, logical_i, wi) ==
    annotation_loop(book.chapter_annotations, 1, logical_i, wi, None)

\* The (line, word) pairs render enumerates: every word of every text line.
rendered_words(book) ==
    {p \in (0..(Len(book.chapter_content) - 1)) \X (0..3) :
        /\ book.chapter_content[p[1] + 1].kind = "Text"
        /\ p[2] < word_count(book.chapter_content[p[1] + 1])}

\* ------------------------------------------- annotations of earlier sessions
\* The book as load_book leaves it, with the cursor and anchor placed.
placed_book(record, cursor, anchor) ==
    [Unwrap(load_book(record, <<>>)) EXCEPT !.current_line = cursor[1],
                                            !.word_index = cursor[2],
                                            !.selection_anchor = anchor]

\* The rows add_quick_highlight_kind can insert for the second book: one per
\* cursor position, anchor and kind.
StorableRows ==
    LET record == InitialRows[2]
        words == rendered_words(Unwrap(load_book(record, <<>>)))
        made == {quick_highlight_row(placed_book(record, c, a), k) :
                    c \in words, a \in {None} \cup {Some(w) : w \in words},
                    k \in AnnotationKinds}
    IN  {Unwrap(r) : r \in {m \in made : IsSome(m)}}

StoredTables == UNION {[1..n -> StorableRows] : n \in 0..MaxStoredAnnotations}

\* A start with highlights made in earlier sessions already persisted.
InitStored ==
    /\ view = "Library"
    /\ current_book = None
    /\ books = InitialRows
    /\ selected_book_index = 0
    /\ db_books = InitialRows
    /\ db_annotations \in StoredTables
    /\ toc_items = 0
    /\ selected_toc_index = 0
    /\ all_annotations = <<>>
    /\ current_annotations = <<>>
    /\ selected_annotation_index = 0
    /\ annotation_filter = "All"
    /\ search_query = <<>>
    /\ global_search_query = <<>>
    /\ global_search_results = <<>>
    /\ DictInit
    /\ ParserInit
    /\ CoverInit
    /\ lastOp = "new"
    /\ prevOp = "new"

\* Opening books and looking at them with stored highlights.
NextRender ==
    \/ LibraryDown
    \/ LibraryUp
    \/ LibraryEnter
    \/ ReaderSelect
    \/ SelectEsc
    \/ ReaderQuit

SpecRender == InitStored /\ [][NextRender]_vars

\* Highlights of the first book made in an earlier session, in the order they
\* were made: two in its second unit, last line first, and one in its first.
HighlightedTable ==
    LET first == InitialRows[1]
        second == [InitialRows[1] EXCEPT !.current_chapter = 1]
    IN  << Unwrap(quick_highlight_row(placed_book(second, <<6, 0>>, None), "question")),
           Unwrap(quick_highlight_row(placed_book(first, <<0, 1>>, None), "highlight")),
           Unwrap(quick_highlight_row(placed_book(second, <<0, 0>>, None), "summary")) >>

\* The same table with two more rows of the first book: one whose kind is a
\* string AnnotationKind does not know, and a question in the third unit.
ListedTable ==
    HighlightedTable \o
    << AnnotationRecord(1, 0, 0, 2, 0, 2, <<"c">>, "note"),
       AnnotationRecord(1, 2, 0, 0, 0, 0, <<"h">>, "question") >>

\* A start with or without those highlights persisted.
InitHighlighted ==
    /\ view = "Library"
    /\ current_book = None
    /\ books = InitialRows
    /\ selected_book_index = 0
    /\ db_books = InitialRows
    /\ db_annotations \in {<<>>, HighlightedTable, ListedTable}
    /\ toc_items = 0
    /\ selected_toc_index = 0
    /\ all_annotations = <<>>
    /\ current_annotations = <<>>
    /\ selected_annotation_index = 0
    /\ annotation_filter = "All"
    /\ search_query = <<>>
    /\ global_search_query = <<>>
    /\ global_search_results = <<>>
    /\ DictInit
    /\ ParserInit
    /\ CoverInit
    /\ lastOp = "new"
    /\ prevOp = "new"

\* Moving between units by key and by the table of contents.
NextSwitch ==
    \/ LibraryEnter
    \/ ReaderNextChapter
    \/ ReaderPrevChapter
    \/ ReaderOpenToc
    \/ TocMove
    \/ TocClose
    \/ TocJump
    \/ ReaderSelect
    \/ SelectCursorRight
    \/ SelectEsc

SpecSwitch == InitHighlighted /\ [][NextSwitch]_vars

\* A library into which one document was imported.
InitFlatten ==
    /\ view = "Library"
    /\ current_book = None
    /\ \E i \in 1..Len(SampleDocuments) :
          LET rows == << [id |-> SampleDocuments[i].id, current_chapter |-> 0,
                          current_line |-> 0, lines_read |-> 0] >>
          IN  books = rows /\ db_books = rows
    /\ selected_book_index = 0
    /\ db_annotations = <<>>
    /\ toc_items = 0
    /\ selected_toc_index = 0
    /\ all_annotations = <<>>
    /\ current_annotations = <<>>
    /\ selected_annotation_index = 0
    /\ annotation_filter = "All"
    /\ search_query = <<>>
    /\ global_search_query = <<>>
    /\ global_search_results = <<>>
    /\ DictInit
    /\ ParserInit
    /\ CoverInit
    /\ lastOp = "new"
    /\ prevOp = "new"

\* Opening the document, leaving it and rebuilding its render cache.
NextFlatten ==
    \/ LibraryEnter
    \/ LibraryProtocol
    \/ ReaderQuit
    \/ ReaderSelect
    \/ SelectEsc

SpecFlatten == InitFlatten /\ [][NextFlatten]_vars


\* ----------------------------------------------------------- specification
\* Navigation: a book is opened and read with the cursor, viewport, selection,
\* unit-switch and in-chapter search keys.
NextNav ==
    \/ LibraryEnter
    \/ ReaderSelect
    \/ ReaderScrollDown
    \/ ReaderScrollUp
    \/ ReaderNextChapter
    \/ ReaderPrevChapter
    \/ ReaderSearch
    \/ SearchEnter
    \/ SearchEsc
    \/ SearchType
    \/ SelectMoveDown
    \/ SelectMoveUp
    \/ SelectCursorRight
    \/ SelectCursorLeft
    \/ SelectToggleVisual
    \/ SelectEsc

SpecNav == Init /\ [][NextNav]_vars

\* Reopening: the handlers that rebuild the render buffer or place the cursor
\* from the books table, with the movement and the saves that feed them.
NextReopen ==
    \/ LibraryDown
    \/ LibraryUp
    \/ LibraryEnter
    \/ LibraryProtocol
    \/ LibraryGlobalSearch
    \/ GlobalSearchType
    \/ GlobalSearchRun
    \/ GlobalSearchJump
    \/ GlobalSearchEsc
    \/ ReaderQuit
    \/ ReaderAdjustMargin
    \/ ReaderNextChapter
    \/ ReaderPrevChapter
    \/ ReaderSelect
    \/ SelectCursorRight
    \/ SelectEsc

SpecReopen == Init /\ [][NextReopen]_vars

\* Overlay: annotations are created, listed and jumped to, and units are
\* switched through the table of contents.
NextOverlay ==
    \/ LibraryEnter
    \/ ReaderNextChapter
    \/ ReaderPrevChapter
    \/ ReaderOpenToc
    \/ TocMove
    \/ TocClose
    \/ TocJump
    \/ ReaderSelect
    \/ SelectCursorRight
    \/ SelectHighlight
    \/ SelectEsc
    \/ ReaderAnnotations
    \/ AnnoListFilter
    \/ AnnoListMove
    \/ AnnoListJump
    \/ AnnoListClose

SpecOverlay == Init /\ [][NextOverlay]_vars

\* Annotating: a book is opened, the cursor and the selection are moved, and
\* annotations are created by the quick keys and through the note box.
NextAnnotate ==
    \/ LibraryEnter
    \/ ReaderNextChapter
    \/ ReaderSelect
    \/ SelectMoveDown
    \/ SelectCursorRight
    \/ SelectToggleVisual
    \/ SelectHighlight
    \/ SelectAnnotate
    \/ AnnotationEnter
    \/ AnnotationEsc
    \/ SelectEsc

SpecAnnotate == Init /\ [][NextAnnotate]_vars

\* Creating: within the unit a book opens at, the cursor and the selection are
\* moved and annotations are created by the quick keys and through the note
\* box.
NextCreate ==
    \/ LibraryEnter
    \/ ReaderSelect
    \/ SelectMoveDown
    \/ SelectCursorRight
    \/ SelectToggleVisual
    \/ SelectHighlight
    \/ SelectAnnotate
    \/ AnnotationEnter
    \/ AnnotationEsc
    \/ SelectEsc

SpecCreate == Init /\ [][NextCreate]_vars

\* Listing: the annotation list is opened, filtered, walked and jumped from;
\* in between the cursor is moved and a selection is left behind by closing
\* the note box.
NextList ==
    \/ LibraryEnter
    \/ ReaderNextChapter
    \/ ReaderSelect
    \/ SelectCursorRight
    \/ SelectToggleVisual
    \/ SelectAnnotate
    \/ AnnotationEsc
    \/ SelectEsc
    \/ ReaderAnnotations
    \/ AnnoListFilter
    \/ AnnoListMove
    \/ AnnoListJump
    \/ AnnoListClose

SpecList == InitHighlighted /\ [][NextList]_vars

\* Looking words up: the cursor is moved over the words of a book, lookups
\* are started and closed, and their results arrive.
NextLookup ==
    \/ LibraryEnter
    \/ ReaderSelect
    \/ SelectCursorRight
    \/ SelectDictionary
    \/ DictionaryClose
    \/ LookupComplete
    \/ ReceiveLookup

SpecLookup == Init /\ [][NextLookup]_vars

\* ---------------------------------------------------------- unit extraction
\* References an image tag can carry: an archive URL whose path is stored (and
\* which is also a manifest id), the same with a fragment, with a query and
\* as the first URL of a srcset; a manifest id; a relative path whose file
\* name ends a stored path; a URL of nothing stored; one of a file that is not
\* an image; a stored path, not as a URL, with a fragment.
SampleRefs ==
    { <<"epub://", "a">>, <<"epub://", "a", "#", "f">>, <<"epub://", "a", "?", "q">>,
      <<"epub://", "a", " ", "2", "x">>, <<"i2">>, <<"d", "/", "b">>,
      <<"epub://", "z">>, <<"epub://", "u">>, <<"img", "/", "b", "#", "f">> }

\* Stretches of markup: with text, with blanks only, and one html2text fails on.
SampleParts ==
    {HtmlPart(TRUE, <<"t">>), HtmlPart(TRUE, <<" ", "\n">>), HtmlPart(FALSE, <<>>)}
    \cup {ImgTag(r) : r \in SampleRefs}

\* The units of an EPUB: one whose bytes cannot be read, and every markup of
\* at most MaxMarkup parts (two stretches of markup are never adjacent).
EpubUnits ==
    {[kind |-> "epub", bytes |-> "error", markup |-> <<>>]}
    \cup {[kind |-> "epub", bytes |-> "read", markup |-> mk] :
            mk \in {q \in UNION {[1..n -> SampleParts] : n \in 0..MaxMarkup} :
                      \A i \in 1..(Len(q) - 1) :
                         ~(q[i].kind = "html" /\ q[i + 1].kind = "html")}}

\* The pages of a PDF, by how the external commands end on them.
PdfPages ==
    {pg \in [kind : {"pdf"},
             pdftotext : {"spawn_error", "exit_failure", "ok"},
             text : {<<"p">>, <<" ", "\n">>, <<>>},
             pdftoppm : {"spawn_error", "exit_failure", "ok"},
             wrote_png : BOOLEAN,
             readable : BOOLEAN,
             image : {None, Some(<<200, 100>>)}] :
        /\ pg.readable => pg.wrote_png
        /\ pg.pdftoppm = "spawn_error" => ~pg.wrote_png
        /\ pg.pdftotext # "ok" => pg.text = <<>>}

\* A parser is about to be asked for one unit of an opened document.
InitExtract ==
    /\ view = "Library"
    /\ current_book = None
    /\ books = InitialRows
    /\ selected_book_index = 0
    /\ db_books = InitialRows
    /\ db_annotations = <<>>
    /\ toc_items = 0
    /\ selected_toc_index = 0
    /\ all_annotations = <<>>
    /\ current_annotations = <<>>
    /\ selected_annotation_index = 0
    /\ annotation_filter = "All"
    /\ search_query = <<>>
    /\ global_search_query = <<>>
    /\ global_search_results = <<>>
    /\ DictInit
    /\ unit_source \in EpubUnits \cup PdfPages
    /\ extracted = None
    /\ tmp_files = {}
    /\ CoverInit
    /\ lastOp = "new"
    /\ prevOp = "new"

\* EpubParser::get_chapter_content is called for the unit.
EpubExtract ==
    /\ unit_source.kind = "epub"
    /\ extracted = None
    /\ extracted' = Some(EpubParser_get_chapter_content(unit_source))
    /\ Record("epub_get_chapter_content")
    /\ UNCHANGED <<view, current_book, libraryVars, dbVars, tocVars, annoListVars,
                   searchVars, dictVars, unit_source, tmp_files, coverVars>>

\* PdfParser::get_chapter_content is called for the page.
PdfExtract ==
    /\ unit_source.kind = "pdf"
    /\ extracted = None
    /\ LET r == PdfParser_get_chapter_content(unit_source, tmp_files)
       IN  /\ extracted' = Some([ok |-> r.ok, items |-> r.items])
           /\ tmp_files' = r.tmp
    /\ Record("pdf_get_chapter_content")
    /\ UNCHANGED <<view, current_book, libraryVars, dbVars, tocVars, annoListVars,
                   searchVars, dictVars, unit_source, coverVars>>

NextExtract ==
    \/ EpubExtract
    \/ PdfExtract

SpecExtract == InitExtract /\ [][NextExtract]_vars

\* The library with the damaged document added to it.
InitDamaged ==
    /\ view = "Library"
    /\ current_book = None
    /\ LET rows == Append(InitialRows,
                      [id |-> DamagedDocument.id, current_chapter |-> 0,
                       current_line |-> 0, lines_read |-> 0])
       IN  books = rows /\ db_books = rows
    /\ selected_book_index = 0
    /\ db_annotations = <<>>
    /\ toc_items = 0
    /\ selected_toc_index = 0
    /\ all_annotations = <<>>
    /\ current_annotations = <<>>
    /\ selected_annotation_index = 0
    /\ annotation_filter = "All"
    /\ search_query = <<>>
    /\ global_search_query = <<>>
    /\ global_search_results = <<>>
    /\ DictInit
    /\ ParserInit
    /\ CoverInit
    /\ lastOp = "new"
    /\ prevOp = "new"

\* Opening: books are chosen, opened, read and left; the table of contents
\* can leave a unit index stored that the document does not have.
NextOpen ==
    \/ LibraryDown
    \/ LibraryUp
    \/ LibraryEnter
    \/ ReaderQuit
    \/ ReaderSelect
    \/ SelectCursorRight
    \/ SelectEsc
    \/ ReaderOpenToc
    \/ TocMove
    \/ TocJump
    \/ TocClose

SpecOpen == InitDamaged /\ [][NextOpen]_vars

\* Following hits: with highlights persisted, books are opened from the
\* library and from the hits of a library-wide search, read by unit and by
\* the table of contents, and left.
NextHit ==
    \/ LibraryDown
    \/ LibraryEnter
    \/ LibraryGlobalSearch
    \/ GlobalSearchType
    \/ GlobalSearchRun
    \/ GlobalSearchJump
    \/ GlobalSearchEsc
    \/ ReaderQuit
    \/ ReaderNextChapter
    \/ ReaderOpenToc
    \/ TocMove
    \/ TocJump
    \/ TocClose

SpecHit == InitHighlighted /\ [][NextHit]_vars

\* Covers: the selection is moved in the library, books are opened and left,
\* and the loop and the cover worker take their steps in between.
NextCover ==
    \/ LibraryDown
    \/ LibraryUp
    \/ LibraryEnter
    \/ ReaderQuit
    \/ CoverDeadline
    \/ CoverWorkerChanged
    \/ CoverWorkerBorrow
    \/ CoverWorkerSend
    \/ CoverReceive

SpecCover == InitDamaged /\ [][NextCover]_vars

\* The same under fair scheduling: the loop keeps making its passes (deadline
\* check, try_recv) and the worker task keeps being polled.
SpecCoverFair ==
    /\ SpecCover
    /\ WF_vars(CoverDeadline)
    /\ WF_vars(CoverReceive)
    /\ WF_vars(CoverWorkerChanged)
    /\ WF_vars(CoverWorkerBorrow)
    /\ WF_vars(CoverWorkerSend)

\* Reading sessions: a book is opened, scrolled through, moved between units
\* and left, again and again.
NextSession ==
    \/ LibraryDown
    \/ LibraryEnter
    \/ ReaderScrollDown
    \/ ReaderScrollUp
    \/ ReaderNextChapter
    \/ ReaderPrevChapter
    \/ ReaderQuit

SpecSession == Init /\ [][NextSession]_vars

\* The whole key dispatch.
Next ==
    \/ NextNav
    \/ NextReopen
    \/ NextOverlay
    \/ NextRender
    \/ NextFlatten
    \/ NextSwitch
    \/ NextAnnotate
    \/ NextList
    \/ NextLookup
    \/ NextExtract
    \/ NextOpen
    \/ NextHit
    \/ NextCover
    \/ NextSession
    \/ NextCreate

Spec == Init /\ [][Next]_vars

\* ------------------------------------------------------------- properties
\* The line under the cursor, or None.
CurLine(book) == line_at(book.chapter_content, book.current_line)

\* Index of the last word of a render line; 0 when it has none.
LastWordIndex(l) ==
    IF l.kind = "Text" /\ word_count(l) > 0 THEN word_count(l) - 1 ELSE 0

\* The cursor addresses a line of the buffer and a word of that line.
CursorValid(book) ==
    /\ book.current_line < Len(book.chapter_content)
    /\ LET l == Unwrap(CurLine(book))
       IN  IF l.kind = "Text" /\ word_count(l) > 0
           THEN book.word_index < word_count(l)
           ELSE book.word_index = 0

\* C1: under navigation from a freshly entered unit the cursor always addresses
\* a line of the buffer, a word of that line when it is a text line with words,
\* and word 0 when it is an empty line or an image row.
C1_CursorInvariant == HasBook => CursorValid(Book)

\* C2: after a handler that replaced the render buffer or placed the cursor
\* from persisted data (load_book, refresh_current_book_render_cache, the
\* global-search jump, jump_to_annotation) the cursor is valid for the buffer.
C2_RevalidatedAfterRebuild ==
    ( /\ HasBook
      /\ \/ lastOp = "open_selected_book" /\ view = "Reader"
         \/ lastOp = "refresh_render_cache"
            /\ get_chapter_content(Book.id, Book.current_chapter).ok
         \/ lastOp = "global_search_jump"
         \/ lastOp = "jump_to_annotation" /\ view = "Reader" )
    => CursorValid(Book)

\* (line, word) points in lexicographic order
LexLeq(l1, w1, l2, w2) == l1 < l2 \/ (l1 = l2 /\ w1 <= w2)

\* C3: get_selection_range is None exactly when no anchor is set; otherwise its
\* two points are the anchor and the cursor, the lexicographically earlier first.
C3_SelectionRangeOrdered ==
    HasBook =>
        LET range == get_selection_range(Book)
            cursor == <<Book.current_line, Book.word_index>>
        IN  /\ IsSome(range) <=> IsSome(Book.selection_anchor)
            /\ IsSome(range) =>
                  LET r == Unwrap(range)
                      anchor == Unwrap(Book.selection_anchor)
                  IN  /\ LexLeq(r[1], r[2], r[3], r[4])
                      /\ \/ <<r[1], r[2]>> = anchor /\ <<r[3], r[4]>> = cursor
                         \/ <<r[1], r[2]>> = cursor /\ <<r[3], r[4]>> = anchor

\* The cursor was moved back from the anchor within the anchor's line.
C3_Witness ==
    /\ HasBook
    /\ IsSome(Book.selection_anchor)
    /\ Unwrap(Book.selection_anchor)[1] = Book.current_line
    /\ Unwrap(Book.selection_anchor)[2] > Book.word_index
    /\ lastOp = "cursor_left"

\* The words of line li that lie in the range r = <<sl, sw, el, ew>>.
RangeSlice(content, r, li) ==
    LET cur == line_at(content, li)
    IN  IF IsText(cur)
        THEN LET W == split_whitespace(Unwrap(cur).text)
                 lo == IF li = r[1] THEN r[2] ELSE 0
                 hi == IF li = r[3] THEN Min(r[4], Len(W) - 1) ELSE Len(W) - 1
             IN  IF lo <= hi THEN SubSeq(W, lo + 1, hi + 1) ELSE <<>>
        ELSE <<>>

RECURSIVE RangeWords(_, _, _)
\* The words of the lines r[1]..li that lie in the range r, in order.
RangeWords(content, r, li) ==
    IF li < r[1] THEN <<>>
    ELSE RangeWords(content, r, li - 1) \o RangeSlice(content, r, li)

\* C4: get_selected_text is the words of the active range joined by single
\* spaces: from sw on the first line, every word of interior text lines, up to
\* ew on the last line (sw..=ew on a single line); image rows and empty lines
\* contribute nothing.
C4_SelectedTextIsRangeWords ==
    (HasBook /\ IsSome(get_selection_range(Book))) =>
        LET r == Unwrap(get_selection_range(Book))
            expected == RangeWords(Book.chapter_content, r, r[3])
            out == get_selected_text(Book)
        IN  IF expected = <<>> THEN out = <<>>
            ELSE SplitOn(out, " ") = expected

\* A selection that starts inside a line, crosses image rows and ends on text.
C4_Witness ==
    /\ HasBook
    /\ view = "Visual"
    /\ IsSome(get_selection_range(Book))
    /\ LET r == Unwrap(get_selection_range(Book))
       IN  /\ r[2] > 0
           /\ \E li \in (r[1] + 1)..(r[3] - 1) : IsImage(line_at(Book.chapter_content, li))
           /\ get_selected_text(Book) = <<"f", " ", "g">>

\* C5: cursor_right from the last word of a text line, or from a text line
\* without words, lands on word 0 of the immediately following line; on the
\* last line of the buffer it leaves the cursor where it is.
C5_CursorRightNextLine ==
    [][ ( /\ lastOp' = "cursor_right"
          /\ HasBook
          /\ IsText(CurLine(Book))
          /\ \/ word_count(Unwrap(CurLine(Book))) = 0
             \/ Book.word_index = word_count(Unwrap(CurLine(Book))) - 1 )
        => IF Book.current_line + 1 < Len(Book.chapter_content)
           THEN /\ Book'.current_line = Book.current_line + 1
                /\ Book'.word_index = 0
           ELSE /\ Book'.current_line = Book.current_line
                /\ Book'.word_index = Book.word_index ]_vars

\* cursor_right has just landed on an empty line that follows a line of words.
C5_Witness ==
    /\ HasBook
    /\ lastOp = "cursor_right"
    /\ Book.current_line = 1
    /\ Book.word_index = 0
    /\ IsText(CurLine(Book))
    /\ word_count(Unwrap(CurLine(Book))) = 0
    /\ word_count(Book.chapter_content[1]) = 3

\* C6: cursor_left from word 0 of a line that is not the first lands on the
\* last word of the previous line (word 0 if that line has no words or is an
\* image row).
C6_CursorLeftLastWord ==
    [][ ( /\ lastOp' = "cursor_left"
          /\ HasBook
          /\ IsSome(CurLine(Book))
          /\ Book.word_index = 0
          /\ Book.current_line > 0 )
        => /\ Book'.current_line = Book.current_line - 1
           /\ Book'.word_index = LastWordIndex(Book.chapter_content[Book.current_line]) ]_vars

RECURSIVE ImageEnd(_, _)
\* Index of the last row of the image whose row is at line i.
ImageEnd(content, i) ==
    LET next == line_at(content, i + 1)
    IN  IF IsImage(next) /\ Unwrap(next).protocol_idx = content[i + 1].protocol_idx
        THEN ImageEnd(content, i + 1)
        ELSE i

\* Index of the first row of the image whose row is at line i.
ImageStart(content, i) == i - content[i + 1].row_idx

\* C7 (as stated): from an image row cursor_right leaves the cursor on the line
\* after the image's last row and cursor_left on the line before its first
\* row, word_index 0 afterwards, when such a line exists.
C7_ImageAtomic ==
    [][ /\ ( /\ lastOp' = "cursor_right"
             /\ HasBook
             /\ IsImage(CurLine(Book))
             /\ ImageEnd(Book.chapter_content, Book.current_line) + 1
                    < Len(Book.chapter_content) )
           => /\ Book'.current_line
                    = ImageEnd(Book.chapter_content, Book.current_line) + 1
              /\ Book'.word_index = 0
        /\ ( /\ lastOp' = "cursor_left"
             /\ HasBook
             /\ IsImage(CurLine(Book))
             /\ ImageStart(Book.chapter_content, Book.current_line) > 0 )
           => /\ Book'.current_line
                    = ImageStart(Book.chapter_content, Book.current_line) - 1
              /\ Book'.word_index = 0 ]_vars

\* C7 (amended): from an image row cursor_right moves to word 0 of the next
\* buffer line and cursor_left to the previous buffer line, one row per step;
\* after cursor_left the word index is re-clamped to the new line. At the ends
\* of the buffer the cursor stays.
C7_ImageRowsStepByLine ==
    [][ /\ ( /\ lastOp' = "cursor_right"
             /\ HasBook
             /\ IsImage(CurLine(Book)) )
           => IF Book.current_line + 1 < Len(Book.chapter_content)
              THEN /\ Book'.current_line = Book.current_line + 1
                   /\ Book'.word_index = 0
              ELSE /\ Book'.current_line = Book.current_line
                   /\ Book'.word_index = Book.word_index
        /\ ( /\ lastOp' = "cursor_left"
             /\ HasBook
             /\ IsImage(CurLine(Book)) )
           => IF Book.current_line > 0
              THEN /\ Book'.current_line = Book.current_line - 1
                   /\ Book'.word_index
                         = Min(Book.word_index,
                               LastWordIndex(Book.chapter_content[Book.current_line]))
              ELSE /\ Book'.current_line = Book.current_line
                   /\ Book'.word_index = Book.word_index ]_vars

\* cursor_right has stepped from one row of an image to the next row of it.
C7_Witness ==
    /\ HasBook
    /\ lastOp = "cursor_right"
    /\ IsImage(CurLine(Book))
    /\ Unwrap(CurLine(Book)).row_idx >= 1
    /\ Book.current_line = ImageStart(Book.chapter_content, Book.current_line)
                              + Unwrap(CurLine(Book)).row_idx

\* C8: from a line that is neither the first nor the last of the buffer,
\* move_cursor_down(h) followed by move_cursor_up returns to the same line.
C8_DownThenUpReturns ==
    (HasBook /\ 0 < Book.current_line
             /\ Book.current_line < Len(Book.chapter_content) - 1) =>
        \A h \in Heights :
            move_cursor_up(move_cursor_down(Book, h)).current_line
                = Book.current_line

\* move_cursor_up has just undone a move_cursor_down and stands on an interior line.
C8_Witness ==
    /\ HasBook
    /\ prevOp = "move_cursor_down"
    /\ lastOp = "move_cursor_up"
    /\ 0 < Book.current_line
    /\ Book.current_line < Len(Book.chapter_content) - 1
    /\ Book.viewport_top > 0

\* The cursor line lies in the window of the given height.
InWindow(book, height) ==
    /\ book.viewport_top <= book.current_line
    /\ book.current_line < book.viewport_top + height

\* C9: after every move_cursor_down(h) the cursor line is in
\* [viewport_top, viewport_top + h), and after every move_cursor_up it is not
\* above viewport_top.
C9_CursorVisibleAfterMove ==
    [][ /\ (lastOp' = "move_cursor_down" /\ HasBook)
           => \A h \in Heights :
                 Book' = move_cursor_down(Book, h) => InWindow(Book', h)
        /\ (lastOp' = "move_cursor_up" /\ HasBook)
           => Book'.viewport_top <= Book'.current_line ]_vars

\* C10: viewport_top always addresses a line of the buffer; scroll_viewport_down
\* raises it by one only below the last line and scroll_viewport_up lowers it
\* by one only above 0.
C10_ViewportTopInRange ==
    [][ /\ HasBook' => Book'.viewport_top <= Len(Book'.chapter_content) - 1
        /\ (lastOp' = "scroll_viewport_down" /\ HasBook)
           => Book'.viewport_top
                 = IF Book.viewport_top + 1 < Len(Book.chapter_content)
                   THEN Book.viewport_top + 1 ELSE Book.viewport_top
        /\ (lastOp' = "scroll_viewport_up" /\ HasBook)
           => Book'.viewport_top
                 = IF Book.viewport_top > 0
                   THEN Book.viewport_top - 1 ELSE Book.viewport_top ]_vars

\* Words of the line at index i of the buffer: 0 for an image row.
WordsOfLine(content, i) ==
    IF content[i + 1].kind = "Text"
    THEN Len(split_whitespace(content[i + 1].text))
    ELSE 0

\* C11: a scroll_viewport_down that moves the viewport adds to words_read the
\* word count of the line at the old viewport_top (0 for an image row); a
\* scroll down clamped at the end of the buffer, scroll_viewport_up and every
\* cursor move leave words_read unchanged.
C11_WordsReadAccrual ==
    [][ /\ (lastOp' = "scroll_viewport_down" /\ HasBook)
           => Book'.words_read =
                 IF Book.viewport_top + 1 < Len(Book.chapter_content)
                 THEN Book.words_read
                         + WordsOfLine(Book.chapter_content, Book.viewport_top)
                 ELSE Book.words_read
        /\ ( /\ lastOp' \in {"scroll_viewport_up", "move_cursor_down",
                             "move_cursor_up", "cursor_right", "cursor_left",
                             "search_jump"}
             /\ HasBook )
           => Book'.words_read = Book.words_read ]_vars

\* A scroll has just taken the three-word line "a b c" out of the window.
C11_Witness ==
    /\ HasBook
    /\ lastOp = "scroll_viewport_down"
    /\ Book.current_chapter = 0
    /\ Book.viewport_top = 1
    /\ Book.words_read = 3

\* The annotation's range as <<sl, sw, el, ew>>.
RangeOf(anno) ==
    <<anno.start_line, anno.start_word, anno.end_line, anno.end_word>>

\* C12 (as stated): for every rendered word and every annotation of the open
\* unit the membership test is true exactly when
\* (sl < line < el) or (sl = el = line and sw <= word <= ew)
\* or (line = sl and word >= sw) or (line = el and word <= ew).
C12_MembershipIsDisjunction ==
    HasBook =>
        \A k \in 1..Len(Book.chapter_annotations) : \A p \in rendered_words(Book) :
            LET r == RangeOf(Book.chapter_annotations[k])
            IN  is_in_anno(p[1], p[2], Book.chapter_annotations[k])
                <=> \/ r[1] < p[1] /\ p[1] < r[3]
                    \/ r[1] = r[3] /\ r[3] = p[1] /\ r[2] <= p[2] /\ p[2] <= r[4]
                    \/ p[1] = r[1] /\ p[2] >= r[2]
                    \/ p[1] = r[3] /\ p[2] <= r[4]

\* C12 (amended): the same, with the two one-sided cases applying only to an
\* annotation that starts and ends on different lines.
C12_MembershipByCase ==
    HasBook =>
        \A k \in 1..Len(Book.chapter_annotations) : \A p \in rendered_words(Book) :
            LET r == RangeOf(Book.chapter_annotations[k])
            IN  is_in_anno(p[1], p[2], Book.chapter_annotations[k])
                <=> \/ r[1] < p[1] /\ p[1] < r[3]
                    \/ r[1] = r[3] /\ r[3] = p[1] /\ r[2] <= p[2] /\ p[2] <= r[4]
                    \/ r[1] # r[3] /\ p[1] = r[1] /\ p[2] >= r[2]
                    \/ r[1] # r[3] /\ p[1] = r[3] /\ p[2] <= r[4]

\* The open unit shows a three-line annotation starting inside its first line
\* and a one-line annotation that leaves a word of its line out.
C12_Witness ==
    /\ HasBook
    /\ view = "Reader"
    /\ Len(Book.chapter_content) = 3
    /\ \E k \in 1..Len(Book.chapter_annotations) :
          RangeOf(Book.chapter_annotations[k]) = <<0, 1, 2, 0>>
    /\ \E k \in 1..Len(Book.chapter_annotations) :
          /\ RangeOf(Book.chapter_annotations[k]) = <<0, 0, 0, 0>>
          /\ <<0, 1>> \in rendered_words(Book)

\* C13: an annotation spanning exactly one word (sl, sw, sl, sw) is matched
\* at (sl, sw) and at no other rendered position.
C13_SingleWordAnnotation ==
    HasBook =>
        \A k \in 1..Len(Book.chapter_annotations) :
            LET r == RangeOf(Book.chapter_annotations[k])
            IN  (r[1] = r[3] /\ r[2] = r[4]) =>
                    {p \in rendered_words(Book) :
                        is_in_anno(p[1], p[2], Book.chapter_annotations[k])}
                    = {<<r[1], r[2]>>}

\* The open unit shows a one-word annotation on the first word of a two-word line.
C13_Witness ==
    /\ HasBook
    /\ view = "Reader"
    /\ Len(Book.chapter_annotations) = 1
    /\ RangeOf(Book.chapter_annotations[1]) = <<0, 0, 0, 0>>
    /\ {p \in rendered_words(Book) : p[1] = 0} = {<<0, 0>>, <<0, 1>>}

\* C14: the display kind of a word is that of the first annotation matching it
\* in the order Db::get_annotations returns the unit's rows (unit, start line,
\* start word); no later matching annotation overrides it.
C14_FirstMatchWins ==
    HasBook =>
        LET persisted == annotations_of_chapter(db_annotations, Book.id,
                                                Book.current_chapter)
        IN  \A p \in rendered_words(Book) :
                LET matching == {k \in 1..Len(persisted) :
                                    is_in_anno(p[1], p[2], persisted[k])}
                IN  annotation_bg_at(Book, p[1], p[2])
                      = IF matching = {} THEN None
                        ELSE Some(persisted[CHOOSE k \in matching :
                                               \A o \in matching : k <= o].kind)

\* A word lies inside two annotations of different kinds and shows the first.
C14_Witness ==
    /\ HasBook
    /\ view = "Reader"
    /\ Len(Book.chapter_annotations) = 2
    /\ Book.chapter_annotations[1].kind # Book.chapter_annotations[2].kind
    /\ \E p \in rendered_words(Book) :
          /\ is_in_anno(p[1], p[2], Book.chapter_annotations[1])
          /\ is_in_anno(p[1], p[2], Book.chapter_annotations[2])
          /\ annotation_bg_at(Book, p[1], p[2])
                = Some(Book.chapter_annotations[1].kind)

\* The content items the open unit was flattened from.
SourceItems(book) == get_chapter_content(book.id, book.current_chapter).items

\* C15: flatten_content never returns an empty buffer; for zero content items
\* and for items that are all empty text blocks the result is exactly one
\* placeholder text line, so the buffer of an open book has at least one line.
C15_BufferNeverEmpty ==
    HasBook =>
        /\ Len(Book.chapter_content) >= 1
        /\ (\A k \in 1..Len(SourceItems(Book)) :
               SourceItems(Book)[k].kind = "Text" /\ SourceItems(Book)[k].text = <<>>)
           => Book.chapter_content = << TextLine(EmptyPlaceholder) >>

\* A unit whose only item is the empty text block has been opened.
C15_Witness ==
    /\ HasBook
    /\ lastOp = "open_selected_book"
    /\ SourceItems(Book) = << PText(<<>>) >>
    /\ Len(Book.chapter_content) = 1

\* Rows of the buffer that carry image index k.
RowsOfImage(content, k) ==
    {i \in 1..Len(content) : content[i].kind = "Image" /\ content[i].protocol_idx = k}

\* The image items of a content list, in order.
ImagesOf(items) == SelectSeq(items, LAMBDA it : it.kind = "Image")

\* C16: an image of w x h pixels occupies clamp(round(80 * (h / w) * 0.5), 5, 30)
\* rows, round being round-to-nearest.
C16_ImageHeightRounded ==
    HasBook =>
        \A k \in 1..Len(ImagesOf(SourceItems(Book))) :
            LET img == ImagesOf(SourceItems(Book))[k]
                rounded == (80 * img.h + img.w) \div (2 * img.w)
            IN  Cardinality(RowsOfImage(Book.chapter_content, k - 1))
                   = clamp(rounded, 5, 30)

\* C17: each image occupies one contiguous run of rows with its index and row
\* indices 0, 1, ... in order; the k-th image of the input has index k and the
\* runs follow the input order; the image table has one entry per image and
\* every image index in the buffer is below its length.
C17_ImageRunsContiguous ==
    HasBook =>
        LET content == Book.chapter_content
            images == ImagesOf(SourceItems(Book))
        IN  /\ Book.image_protocols = Len(images)
            /\ \A i \in 1..Len(content) :
                  content[i].kind = "Image" => content[i].protocol_idx < Book.image_protocols
            /\ \A k \in 1..Len(images) :
                  LET rows == RowsOfImage(content, k - 1)
                  IN  /\ rows # {}
                      /\ \E a \in rows :
                            /\ rows = a..(a + Cardinality(rows) - 1)
                            /\ \A i \in rows : content[i].row_idx = i - a
                      /\ Cardinality(rows) = height_lines(images[k].w, images[k].h)
                      /\ k > 1 => \A i \in rows :
                                     \A j \in RowsOfImage(content, k - 2) : j < i

\* A unit of two images one after the other has been opened.
C17_Witness ==
    /\ HasBook
    /\ lastOp = "open_selected_book"
    /\ SourceItems(Book) = << PImage(200, 100), PImage(8, 1) >>
    /\ Len(Book.chapter_content) = 25

RECURSIVE SegmentsOf(_)
\* The newline-delimited segments of the non-empty text blocks, in order.
SegmentsOf(items) ==
    IF items = <<>> THEN <<>>
    ELSE (IF Head(items).kind = "Text" /\ Head(items).text # <<>>
          THEN SplitOn(Head(items).text, "\n") ELSE <<>>)
         \o SegmentsOf(Tail(items))

\* The text of the text lines of a buffer, in order.
TextLinesOf(content) ==
    LET texts == SelectSeq(content, LAMBDA l : l.kind = "Text")
    IN  [i \in 1..Len(texts) |-> texts[i].text]

\* C18: each text block yields one text line per newline-delimited segment, in
\* order, empty segments included, also the empty segment after a final
\* newline: a non-empty block has as many lines as newlines plus one.
C18_OneLinePerSegment ==
    (HasBook /\ SegmentsOf(SourceItems(Book)) # <<>>) =>
        TextLinesOf(Book.chapter_content) = SegmentsOf(SourceItems(Book))

\* C19: a layout-affecting setting change with a unit open (adjust_margin, an
\* image protocol change) rebuilds the buffer from the same source content,
\* leaving it equal to the previous one, and resets the cursor to (0, 0).
C19_SettingChangeResetsCursor ==
    [][ ( /\ lastOp' \in {"adjust_margin", "refresh_render_cache"}
          /\ HasBook
          /\ get_chapter_content(Book.id, Book.current_chapter).ok )
        => /\ Book'.chapter_content = flatten_content(SourceItems(Book)).lines
           /\ Book'.chapter_content = Book.chapter_content
           /\ Book'.current_line = 0
           /\ Book'.word_index = 0 ]_vars

\* The unit a switch handler is about to enter, or None when it will not switch.
SwitchTarget(op) ==
    IF ~HasBook THEN None
    ELSE IF op = "next_chapter"
    THEN (IF Book.current_chapter + 1 < get_chapter_count(Book.id)
          THEN Some(Book.current_chapter + 1) ELSE None)
    ELSE IF op = "prev_chapter"
    THEN (IF Book.current_chapter > 0 THEN Some(Book.current_chapter - 1) ELSE None)
    ELSE IF op = "jump_to_toc"
    THEN (IF selected_toc_index < get_chapter_count(Book.id)
          THEN Some(selected_toc_index) ELSE None)
    ELSE None

CreationSource(book, op) ==
    LET cur == CurLine(book)
        W == IF IsText(cur) THEN split_whitespace(Unwrap(cur).text) ELSE <<>>
    IN  IF IsSome(book.selection_anchor)
        THEN LET r == Unwrap(get_selection_range(book))
                 words == RangeWords(book.chapter_content, r, r[3])
             IN  IF words = <<>> THEN None
                 ELSE Some([range |-> r, content |-> join(words, <<" ">>)])
        ELSE IF op = "add_quick_highlight"
        THEN IF book.word_index < Len(W)
             THEN Some([range |-> <<book.current_line, book.word_index,
                                    book.current_line, book.word_index>>,
                        content |-> W[book.word_index + 1]])
             ELSE None
        ELSE IF IsText(cur) /\ Unwrap(cur).text # <<>>
             THEN Some([range |-> <<book.current_line, 0,
                                    book.current_line, Len(W) - 1>>,
                        content |-> Unwrap(cur).text])
             ELSE None

\* C21: an annotation created by a quick highlight or through the note box
\* takes its range from the active selection when an anchor is set, else
\* covers the single word under the cursor (quick highlight) or the whole
\* current line (note annotation); whenever the snapshot is non-empty, a row
\* with that range and snapshot is appended for the current unit.
C21_CreationFromSource ==
    [][(lastOp' \in {"add_quick_highlight", "add_annotation_with_note"} /\ HasBook
        /\ IsSome(CreationSource(Book, lastOp')))
       => LET src == Unwrap(CreationSource(Book, lastOp'))
          IN  /\ Len(db_annotations') = Len(db_annotations) + 1
              /\ LET row == db_annotations'[Len(db_annotations')]
                 IN  /\ row.book_id = Book.id
                     /\ row.chapter = Book.current_chapter
                     /\ RangeOf(row) = src.range
                     /\ row.content = src.content]_vars


\* Whether a record is shown under a filter: every record under All, else the
\* records of that kind, a kind that is neither question nor summary being a
\* highlight.
ShownUnder(a, filter) ==
    \/ filter = "All"
    \/ filter = a.kind /\ a.kind \in {"question", "summary"}
    \/ filter = "highlight" /\ a.kind \notin {"question", "summary"}

\* C22: set_annotation_filter(kind) leaves as the visible list exactly the
\* loaded annotations of that kind in their relative order (all of them for
\* All; an unrecognised kind string counts as a highlight) and resets
\* selected_annotation_index to 0.
C22_FilterShowsKind ==
    [][lastOp' = "set_annotation_filter"
       => LET all == all_annotations
              shown == {i \in 1..Len(all) : ShownUnder(all[i], annotation_filter')}
          IN  /\ all_annotations' = all
              /\ Len(current_annotations') = Cardinality(shown)
              /\ \A i \in shown :
                    current_annotations'[Cardinality({j \in shown : j <= i})] = all[i]
              /\ selected_annotation_index' = 0]_vars

\* The highlight filter was set over a list holding every kind: the record
\* with the unknown kind is shown with the highlights, the others are not.
C22_Witness ==
    /\ lastOp = "set_annotation_filter"
    /\ annotation_filter = "highlight"
    /\ Len(all_annotations) = 5
    /\ Len(current_annotations) = 2
    /\ current_annotations[1].kind = "highlight"
    /\ current_annotations[2].kind = "note"


\* C23: jump_to_annotation on an annotation of the open unit changes nothing
\* of the book but the cursor, set to (start_line, start_word), the viewport
\* top, set to start_line, and the anchor, cleared; on an annotation of
\* another unit it switches to that unit (its flattened content and its
\* stored annotations are installed) and leaves the cursor at
\* (start_line, start_word).
C23_JumpToAnnotation ==
    [][(lastOp' = "jump_to_annotation" /\ HasBook
        /\ selected_annotation_index < Len(current_annotations))
       => LET anno == current_annotations[selected_annotation_index + 1]
              after == Unwrap(current_book')
          IN  /\ after.current_line = anno.start_line
              /\ after.word_index = anno.start_word
              /\ after.viewport_top = anno.start_line
              /\ after.selection_anchor = None
              /\ IF anno.chapter = Book.current_chapter
                 THEN after = [Book EXCEPT !.current_line = anno.start_line,
                                           !.word_index = anno.start_word,
                                           !.viewport_top = anno.start_line,
                                           !.selection_anchor = None]
                 ELSE /\ after.current_chapter = anno.chapter
                      /\ after.chapter_content =
                            flatten_content(
                               DocumentOf(Book.id).chapters[anno.chapter + 1]).lines
                      /\ \A a \in {after.chapter_annotations[k] :
                                        k \in 1..Len(after.chapter_annotations)} :
                            a.chapter = anno.chapter
                      /\ Len(after.chapter_annotations) =
                            Cardinality({k \in 1..Len(db_annotations) :
                                           /\ db_annotations[k].book_id = Book.id
                                           /\ db_annotations[k].chapter = anno.chapter})]_vars

\* A jump inside the second unit: the cursor and the viewport top are on the
\* annotation's line 6 and there is no anchor, while the saved position is
\* still the one the unit was entered at (a jump between units saves).
C23_Witness ==
    /\ lastOp = "jump_to_annotation"
    /\ view = "Reader"
    /\ HasBook
    /\ Book.current_chapter = 1
    /\ Book.current_line = 6
    /\ Book.viewport_top = 6
    /\ Book.selection_anchor = None
    /\ db_books[1].current_chapter = 1
    /\ db_books[1].current_line = 0


\* C24: enter_visual_mode sets the anchor to the cursor (line, word) at every
\* cursor position and exit_visual_mode clears it; neither changes anything
\* else of the book (cursor, viewport, buffer).
C24_VisualModeAnchor ==
    [][HasBook =>
         /\ lastOp' = "enter_visual_mode" =>
                current_book' = Some([Book EXCEPT !.selection_anchor =
                                        Some(<<Book.current_line, Book.word_index>>)])
         /\ lastOp' = "exit_visual_mode" =>
                current_book' = Some([Book EXCEPT !.selection_anchor = None])]_vars


\* C25: a lookup result is applied only to the request it answers: when a
\* result is received, either it was produced by looking up the word now in
\* dictionary_query, and then it is the definition shown and the one stored
\* under that word if the word is new, or it answers a superseded request and
\* is discarded, the definition shown and the vocabulary staying as they were.
C25_ResultAnswersRequest ==
    [][lastOp' = "receive_lookup"
       => LET m == Head(rx_dict)
          IN  IF m.word = dictionary_query
              THEN /\ dictionary_result' = m.result
                   /\ \A v \in vocabulary' \ vocabulary :
                         v = [word |-> m.word, definition |-> m.result]
              ELSE /\ dictionary_result' = dictionary_result
                   /\ vocabulary' = vocabulary]_vars


\* C26: get_chapter_content of an opened document never returns an error for
\* an in-range unit: text that cannot be extracted, a failing external
\* extractor, a missing or undecodable image and a blank scanned page all give
\* Ok with at least one visible item.
C26_ExtractionNeverFails ==
    IsSome(extracted) =>
        /\ Unwrap(extracted).ok
        /\ Unwrap(extracted).items # <<>>


\* Whether an item is what one image reference may leave: an image, or a text
\* placeholder in which the reference is named.
IsRefItem(item, raw) ==
    \/ item.kind = "Image"
    \/ item.kind = "Text" /\ contains(item.text, effective_src(raw))

RECURSIVE ItemsFollowMarkup(_, _)
\* The items are what the parts of the markup leave, in order: exactly one item
\* per image tag, and for a stretch of markup its text or nothing.
ItemsFollowMarkup(items, markup) ==
    IF markup = <<>> THEN items = <<>>
    ELSE IF Head(markup).kind = "img"
    THEN /\ items # <<>>
         /\ IsRefItem(Head(items), Head(markup).src)
         /\ ItemsFollowMarkup(Tail(items), Tail(markup))
    ELSE \/ ItemsFollowMarkup(items, Tail(markup))
         \/ /\ items # <<>>
            /\ Head(items) = PText(Head(markup).plain)
            /\ ItemsFollowMarkup(Tail(items), Tail(markup))

\* C27: EPUB extraction leaves, for every image reference of the markup and in
\* document order, exactly one item (the decoded image, or a text placeholder
\* naming the resource) and goes on with the rest of the markup; the item list
\* is never empty: a unit of zero bytes or zero items gives exactly one
\* placeholder text block.
C27_OneItemPerImageReference ==
    (IsSome(extracted) /\ unit_source.kind = "epub" /\ unit_source.bytes = "read") =>
        LET items == Unwrap(extracted).items
            markup == unit_source.markup
        IN  /\ Unwrap(extracted).ok
            /\ items # <<>>
            /\ IF ItemsFollowMarkup(<<>>, markup)
               THEN Len(items) = 1 /\ items[1].kind = "Text" /\ ~is_blank(items[1].text)
               ELSE ItemsFollowMarkup(items, markup)

\* A reference to nothing stored, text, and a reference that decodes: the
\* placeholder, the text and the image, in that order.
C27_Witness ==
    /\ IsSome(extracted)
    /\ unit_source.kind = "epub"
    /\ unit_source.markup =
          << ImgTag(<<"epub://", "z">>), HtmlPart(TRUE, <<"t">>), ImgTag(<<"i2">>) >>
    /\ Unwrap(extracted).items =
          << PText(NotFoundPlaceholder(<<"epub://", "z">>)), PText(<<"t">>),
             PImage(8, 1) >>


\* The reference without its scheme and without a '#fragment' or '?query'.
ArchivePathOf(src) ==
    LET rest == IF src # <<>> /\ Head(src) = "epub://" THEN Tail(src) ELSE src
        cut == {k \in 1..Len(rest) : rest[k] \in {"#", "?"}}
    IN  IF cut = {} THEN rest
        ELSE SubSeq(rest, 1, (CHOOSE k \in cut : \A j \in cut : k <= j) - 1)

\* The resource the stated chain gives: the resource with the reference as
\* manifest id; else the one stored at the reference's archive path; else one
\* whose path ends with the reference's file name; else None.
ChainResolution(src) ==
    LET by_id == {r \in 1..Len(Resources) : Resources[r].id = src}
        by_path == {r \in 1..Len(Resources) : Resources[r].path = ArchivePathOf(src)}
        by_name == {r \in 1..Len(Resources) :
                      /\ file_name(src) # <<>>
                      /\ ends_with(Resources[r].path, file_name(src))}
        first == IF by_id # {} THEN by_id ELSE IF by_path # {} THEN by_path ELSE by_name
    IN  IF first = {} THEN None ELSE Some(Resources[CHOOSE r \in first : TRUE])

\* C29: every image reference of an extracted unit is resolved through the
\* chain manifest id, then archive path without '#fragment' or '?query', then
\* trailing file name, the first success winning; where the id and the path
\* both name a resource, the id's resource is used.
C29_ResolutionChain ==
    (IsSome(extracted) /\ unit_source.kind = "epub") =>
        \A k \in 1..Len(unit_source.markup) :
            unit_source.markup[k].kind = "img" =>
                resolve_image(effective_src(unit_source.markup[k].src))
                   = ChainResolution(effective_src(unit_source.markup[k].src))


\* Whether the rasterized page was obtained: pdftoppm ran to success, left the
\* file, the file was read and decoded.
Rasterized(page) ==
    /\ page.pdftoppm = "ok"
    /\ page.wrote_png
    /\ page.readable
    /\ IsSome(page.image)

\* C30: PDF page extraction follows text, raster, placeholder: non-blank text
\* gives one text block; blank text gives one image from the rasterized page,
\* or one placeholder text block when rasterizing, reading or decoding fails;
\* and whenever the rasterizer created the temporary file, the file is gone
\* when get_chapter_content returns.
C30_TextRasterPlaceholder ==
    (IsSome(extracted) /\ unit_source.kind = "pdf" /\ unit_source.pdftotext = "ok") =>
        LET page == unit_source
            items == Unwrap(extracted).items
        IN  /\ Unwrap(extracted).ok
            /\ Len(items) = 1
            /\ IF ~is_blank(page.text) THEN items[1] = PText(page.text)
               ELSE IF Rasterized(page)
               THEN items[1] = PImage(Unwrap(page.image)[1], Unwrap(page.image)[2])
               ELSE items[1].kind = "Text" /\ ~is_blank(items[1].text)
            /\ (is_blank(page.text) /\ page.wrote_png) => PngPath \notin tmp_files


\* Whether opening the record must fail: the document has no unit that can be
\* read, or the unit stored as current does not exist.
CannotOpen(record) ==
    \/ DocumentOf(record.id).chapters = <<>>
    \/ record.current_chapter >= Len(DocumentOf(record.id).chapters)

\* C28: when opening a document fails, no handle is created and nothing
\* changes: current_book, the view, the cursor and buffer state, the cached
\* rows and the tables are as before the call.
C28_FailedOpenChangesNothing ==
    [][(lastOp' = "open_selected_book" /\ books # <<>>
        /\ CannotOpen(books[selected_book_index + 1]))
       => UNCHANGED <<view, current_book, books, selected_book_index, db_books,
                      db_annotations, toc_items, selected_toc_index, all_annotations,
                      current_annotations, selected_annotation_index,
                      annotation_filter>>]_vars

\* The damaged document was tried with another book open: the Library is
\* still shown and the other book is still the current one.
C28_Witness ==
    /\ lastOp = "open_selected_book"
    /\ view = "Library"
    /\ books[selected_book_index + 1].id = DamagedDocument.id
    /\ HasBook
    /\ Book.id = 1
    /\ Book.word_index = 1


\* C31: with a book open, the viewport top is never below the cursor line:
\* viewport_top <= current_line.
C31_ViewportTopNotBelowCursor ==
    HasBook => Book.viewport_top <= Book.current_line

\* A scroll down has just moved the top of the window onto the cursor line.
C31_Witness ==
    /\ HasBook
    /\ lastOp = "scroll_viewport_down"
    /\ Book.viewport_top > 0
    /\ Book.current_line = Book.viewport_top

\* The elements of a sequence.
SeqRange(s) == {s[i] : i \in 1..Len(s)}

\* C32: after load_book, a unit switch, a TOC or annotation jump, the creation
\* of an annotation and the global-search jump, chapter_annotations holds
\* exactly the persisted annotations of the open book whose unit is
\* current_chapter.
C32_ChapterAnnotationsOfCurrentUnit ==
    [][ (/\ HasBook'
         /\ lastOp' \in {"open_selected_book", "next_chapter", "prev_chapter",
                         "jump_to_toc", "jump_to_annotation", "add_quick_highlight",
                         "add_annotation_with_note", "global_search_jump"})
        => SeqRange(Book'.chapter_annotations)
             = SeqRange(annotations_of_chapter(db_annotations', Book'.id,
                                               Book'.current_chapter)) ]_vars

\* Whether the handler op, run in the current state, asks the parser for a
\* unit whose extraction fails.
SwitchFails(op) ==
    /\ HasBook
    /\ LET asked ==
              IF op = "next_chapter"
              THEN (IF Book.current_chapter + 1 < get_chapter_count(Book.id)
                    THEN Some(Book.current_chapter + 1) ELSE None)
              ELSE IF op = "prev_chapter"
              THEN (IF Book.current_chapter > 0
                    THEN Some(Book.current_chapter - 1) ELSE None)
              ELSE IF op = "jump_to_toc" THEN Some(selected_toc_index)
              ELSE IF op = "jump_to_annotation"
              THEN (IF /\ selected_annotation_index < Len(current_annotations)
                       /\ current_annotations[selected_annotation_index + 1].chapter
                             # Book.current_chapter
                    THEN Some(current_annotations[selected_annotation_index + 1].chapter)
                    ELSE None)
              ELSE None
       IN  IsSome(asked) /\ ~get_chapter_content(Book.id, Unwrap(asked)).ok

\* C33: a unit switch (next_chapter, prev_chapter, jump_to_toc,
\* jump_to_annotation to another unit) whose extraction fails leaves
\* current_chapter, the cursor, the viewport, the buffer and
\* chapter_annotations as they were.
C33_FailedSwitchChangesNothing ==
    [][ (/\ lastOp' \in {"next_chapter", "prev_chapter", "jump_to_toc",
                         "jump_to_annotation"}
         /\ SwitchFails(lastOp'))
        => /\ HasBook'
           /\ Book'.current_chapter = Book.current_chapter
           /\ Book'.current_line = Book.current_line
           /\ Book'.word_index = Book.word_index
           /\ Book'.viewport_top = Book.viewport_top
           /\ Book'.chapter_content = Book.chapter_content
           /\ Book'.chapter_annotations = Book.chapter_annotations ]_vars

\* C34: with a book open, current_chapter is the index of a unit of the
\* document: current_chapter < get_chapter_count.
C34_CurrentChapterInDocument ==
    HasBook => Book.current_chapter < get_chapter_count(Book.id)

\* C35: selecting a global-search hit (book b, unit u) only affects book b.
\* If b opens, the open book is b at unit u with the buffer of unit u; if
\* opening b fails, the book open before keeps its current_chapter and its
\* buffer.
C35_HitAffectsOnlyItsBook ==
    [][ (/\ lastOp' = "global_search_jump"
         /\ global_search_results # <<>>
         /\ IsSome(book_position(books, global_search_results[1][1])))
        => LET hit == global_search_results[1]
               record == books[Unwrap(book_position(books, hit[1])) + 1]
           IN  IF IsSome(load_book(record, db_annotations))
               THEN /\ HasBook'
                    /\ Book'.id = hit[1]
                    /\ Book'.current_chapter = hit[2]
                    /\ Book'.chapter_content
                          = flatten_content(get_chapter_content(hit[1], hit[2]).items).lines
               ELSE /\ HasBook' = HasBook
                    /\ HasBook => /\ Book'.id = Book.id
                                  /\ Book'.current_chapter = Book.current_chapter
                                  /\ Book'.chapter_content = Book.chapter_content ]_vars

\* C38: whenever the view is Reader, the open book has no selection anchor.
C38_NoAnchorInReader ==
    (view = "Reader" /\ HasBook) => Book.selection_anchor = None

\* C39: the words-read value stored for a book never decreases: no step
\* stores a value smaller than the one stored before it.
C39_StoredWordsReadMonotone ==
    [][ \A i \in 1..Len(db_books) :
           db_books'[i].lines_read >= db_books[i].lines_read ]_vars

\* Whether a persisted annotation is well formed: its start is
\* lexicographically not after its end and its content snapshot is non-empty.
WellFormed(a) ==
    /\ LexLeq(a.start_line, a.start_word, a.end_line, a.end_word)
    /\ a.content # <<>>

LibraryIds == {Documents[i].id : i \in 1..Len(LibraryDocuments)} \cup {DamagedDocument.id}

\* C37: under fair scheduling of the loop and the cover worker, every book id
\* marked in flight is eventually removed from pending_cover_requests by a
\* response and is then in cover_cache or cover_missing.
C37_RequestEventuallyAnswered ==
    \A id \in LibraryIds :
        (id \in pending_cover_requests)
            ~> (/\ id \notin pending_cover_requests
                /\ (cache_has(cover_cache, id) \/ id \in cover_missing))

====
